---- MODULE Spec2Model ----
(***************************************************************************)
(* Model of the lyric-display host program:                                *)
(*   - the serial transport with its heartbeat (serial_comm/connection.py) *)
(*   - the lyric/position synchronisation engine (ui/main_window.py,       *)
(*     srt/parser.py).                                                     *)
(* Time is counted in whole seconds for the transport and in milliseconds  *)
(* for the sync engine.                                                    *)
(***************************************************************************)
EXTENDS Integers, Sequences, FiniteSets, TLC

(***************************************************************************)
(* Program constants                                                       *)
(***************************************************************************)
PING_INTERVAL_S == 2
PONG_TIMEOUT_S == 5
JOIN_TIMEOUT_S == 2

(***************************************************************************)
(* Bounds of the model                                                     *)
(***************************************************************************)
\* successful open_port calls (each creates one handle and one reader thread)
MaxOpens == 2
\* the clock stops advancing at MaxTime seconds
MaxTime == 8
\* connected signals queued for the main thread and not yet handled
MaxPending == 1

Threads == 1..MaxOpens

\* lines the device can send; "X" stands for any unrecognised line
InboundLines == {"PONG", "BTN|PRESS", "X"}

VARIABLES
    \* ---- SerialConnection fields --------------------------------------
    serial,          \* self._serial: 0 = None, h > 0 = the open handle h
    running,         \* self._running
    reader_thread,   \* self._reader_thread: 0 = None, t > 0 = thread t
    is_connected,    \* self._is_connected
    last_pong_time,  \* self._last_pong_time
    ping_timer,      \* self._ping_timer.isActive()
    ping_due,        \* time at which the ping timer fires next
    \* ---- scheduler (Qt main thread) -----------------------------------
    now,             \* time.time(), whole seconds
    mpc,             \* where the main thread is: "idle", "join", "acquire"
    mop,             \* the call in progress: "none", "close", "open"
    pending_close,   \* QTimer.singleShot(0, self.close_port) is queued
    \* ---- reader threads -----------------------------------------------
    rpc,             \* position of each reader thread
    rser,            \* the local `ser` each reader grabbed under the lock
    rline,           \* the line a reader is about to hand to _process_line
    \* ---- the device and the wire --------------------------------------
    connected_pending, \* queued calls of the connected handler (_on_serial_connected)
    lock,            \* self._lock: 0 = free, t > 0 = held by reader thread t
    rx,              \* line waiting in the input buffer of the open handle
    written,         \* lines written to the handle by the last step
    \* ---- observation --------------------------------------------------
    events,          \* signals emitted by the last step, in order
    act,             \* the operation the last step belongs to
    pong_since_open, \* a PONG was processed since the last successful open
    conn_at_call,    \* is_connected when the close_port in progress/last run was called
    closes_since_open, \* close_port calls completed since the last open_port call
    hb,              \* heartbeat episode: "none", "timedout", "closed"
    hb_disc,         \* disconnected events since (and including) the timeout step
    hb_err,          \* error events since (and including) the timeout step
    send_calls,      \* the commands the last step passed to _write, in call order
    write_error,     \* serial.write raised an I/O error in the last step
    \* ---- MainWindow / AppConfig / AudioPlayer fields --------------------
    lyrics,          \* self._lyrics: sequence of [start_ms, end_ms, text]
    current_track,   \* self._current_track: 0 = None, 1 = a track
    track_offset_ms, \* self._track_offset_ms
    global_offset_ms,\* config.global_offset_ms
    display_mode,    \* config.display_mode
    last_lyric_idx,  \* self._last_lyric_idx
    in_lyric_gap,    \* self._in_lyric_gap
    player_state,    \* playback state of the audio player
    has_media,       \* the audio player was given a source
    ui_lyric,        \* text of the lyric label of the playback controls
    \* ---- preview (_OledCanvas) ------------------------------------------
    sim_mode,        \* _display_mode
    sim_text,        \* _current_text
    sim_calls,       \* calls made on the preview by the last step, in order
    \* ---- observation of the sync engine ---------------------------------
    tick_pos,        \* position given to _sync_lyrics by the last step, or -1
    gap_before,      \* in_lyric_gap before the last step
    last_before,     \* _last_lyric_idx before the last step
    adj_track,       \* the track offset was adjusted since the last tick
    tick_adj_track,  \* adj_track before the last step, if that was a tick
    \* ---- line assembly of SerialConnection._reader_loop -----------------
    wire,            \* bytes the device has sent that no read has returned yet
    consumed,        \* bytes the reads have returned so far, in order
    buffer,          \* the local buffer: decoded characters after the last line feed
    dispatched,      \* lines given to _process_line so far, in order
    \* ---- SpectrumAnalyzer ------------------------------------------------
    has_numpy,       \* _HAS_NUMPY
    has_pydub,       \* _HAS_PYDUB
    samples,         \* self._samples: NoSamples = None, else [file, len] of the decoded audio
    tasks,           \* the decode threads started so far: [file, state] each
    latest,          \* the file given to the last load_file call, "" before the first
    completed,       \* how the last decode to finish since the last load ended
    levels,          \* what the last get_levels call returned
    sp_call,         \* the last call or step of the analyzer
    \* ---- the EQ command on the wire --------------------------------------
    eq_levels,       \* the list given to send_equalizer
    eq_line,         \* the characters send_equalizer writes
    eq_parsed,       \* the values the device reads from that line
    eq_pc,           \* "input", "sent", "parsed"
    \* ---- _OledCanvas._word_wrap ------------------------------------------
    wrap_text,       \* text: a sequence of characters
    chars_per_line,  \* chars_per_line
    wrap_lines,      \* the lines returned
    wrap_starts,     \* pos at the start of the iteration that produced each line
    wrap_pc,         \* "input", "done"
    \* ---- _OledCanvas: the lyric area and its scroll timer -----------------
    current_text,          \* _current_text, a sequence of characters
    text_scale,            \* _text_scale, whole sizes only
    text_size,             \* _text_size
    oled_mode,             \* _display_mode of the canvas
    lyric_scroll_offset,   \* _lyric_scroll_offset
    total_lyric_height,    \* _total_lyric_height
    lyric_scroll_timer,    \* _lyric_scroll_timer.isActive()
    visible,               \* the simulator window is shown
    dirty,                 \* update() was called and paintEvent has not run yet
    \* ---- _OledCanvas: the bars, and the equalizer tick that feeds them ----
    eq_heights,            \* _eq_heights
    eq_input,              \* the list of the last set_equalizer call
    eq_cmd,                \* the EQ line of the last equalizer tick, <<>> if none
    eq_call,               \* "init", "set_equalizer", "tick"
    \* ---- parse_srt ---------------------------------------------------------
    srt_doc,         \* the text given to parse_srt, as its blocks or lines in file order
    parsed,          \* the list of LyricLine returned
    parse_pc         \* "input", "done"

linkVars == <<serial, running, reader_thread, is_connected, last_pong_time,
              ping_timer, ping_due, now, mpc, mop, pending_close,
              rpc, rser, rline, rx, written, connected_pending, lock>>
obsVars == <<events, act, pong_since_open, conn_at_call, closes_since_open,
             hb, hb_disc, hb_err, write_error, send_calls>>
engineVars == <<lyrics, current_track, track_offset_ms, global_offset_ms,
                display_mode, last_lyric_idx, in_lyric_gap, player_state, has_media,
                ui_lyric, sim_mode, sim_text, sim_calls, tick_pos, gap_before,
                last_before,
                adj_track, tick_adj_track>>
\* what the sync engine leaves alone in the transport
linkState == <<serial, running, reader_thread, is_connected, last_pong_time,
               ping_timer, ping_due, now, mpc, mop, pending_close,
               rpc, rser, rline, rx, pong_since_open, conn_at_call,
               closes_since_open, hb, hb_disc, hb_err, write_error,
               connected_pending, lock>>
assemblyVars == <<wire, consumed, buffer, dispatched>>
spectrumVars == <<has_numpy, has_pydub, samples, tasks, latest, completed, levels, sp_call>>
wireVars == <<eq_levels, eq_line, eq_parsed, eq_pc>>
wrapVars == <<wrap_text, chars_per_line, wrap_lines, wrap_starts, wrap_pc>>
scrollVars == <<current_text, text_scale, text_size, oled_mode, lyric_scroll_offset,
                total_lyric_height, lyric_scroll_timer, visible, dirty>>
barVars == <<eq_heights, eq_input, eq_cmd, eq_call>>
canvasVars == <<wrapVars, scrollVars, barVars>>
parserVars == <<srt_doc, parsed, parse_pc>>
vars == <<linkVars, obsVars, engineVars, assemblyVars, spectrumVars,
          wireVars, canvasVars, parserVars>>

(***************************************************************************)
(* Helpers                                                                 *)
(***************************************************************************)
RECURSIVE Count(_, _)
Count(s, e) ==
    IF s = <<>> THEN 0
    ELSE (IF Head(s) = e THEN 1 ELSE 0) + Count(Tail(s), e)

ReaderAlive(t) == t # 0 /\ rpc[t] \in {"loop", "locked", "read", "line"}

\* a write that does not test the handle
WriteUnguarded(cmds) == cmds

\* a write that lets a later command overtake the first one
WriteOvertaking(cmds) ==
    IF serial = 0 THEN <<>>
    ELSE IF Len(cmds) < 2 THEN cmds
    ELSE Tail(cmds) \o <<Head(cmds)>>

\* SerialConnection._write: the line goes out only if the handle is open
Write(cmds) == IF serial # 0 THEN cmds ELSE <<>>

(***************************************************************************)
(* Initial state: SerialConnection.__init__                                *)
(***************************************************************************)
InitLink ==
    /\ serial = 0
    /\ running = FALSE
    /\ reader_thread = 0
    /\ is_connected = FALSE
    /\ last_pong_time = 0
    /\ ping_timer = FALSE
    /\ ping_due = 0
    /\ now = 0
    /\ mpc = "idle"
    /\ mop = "none"
    /\ pending_close = FALSE
    /\ rpc = [t \in Threads |-> "none"]
    /\ rser = [t \in Threads |-> 0]
    /\ rline = [t \in Threads |-> ""]
    /\ rx = ""
    /\ written = <<>>
    /\ connected_pending = 0
    /\ lock = 0

InitObs ==
    /\ events = <<>>
    /\ act = "init"
    /\ pong_since_open = FALSE
    /\ conn_at_call = FALSE
    /\ closes_since_open = 0
    /\ hb = "none"
    /\ hb_disc = 0
    /\ hb_err = 0
    /\ write_error = FALSE
    /\ send_calls = <<>>


(***************************************************************************)
(* SerialConnection.close_port                                             *)
(***************************************************************************)
Min(a, b) == IF a < b THEN a ELSE b

\* a close_port that keeps the handle
HandleKept == serial

\* line 120: self._serial = None
HandleAfterClose == 0

\* lines 113-125: what close_port does once the join has returned; the handle
\* is closed under the lock (line 115)
ClosePortTail(op) ==
    /\ lock = 0
    /\ reader_thread' = 0
    /\ serial' = HandleAfterClose
    /\ rx' = ""
    /\ is_connected' = FALSE
    /\ events' = IF is_connected THEN <<"disconnected">> ELSE <<>>
    /\ mpc' = IF op = "open" THEN "acquire" ELSE "idle"
    /\ mop' = IF op = "open" THEN "open" ELSE "none"
    /\ act' = IF op = "open" THEN "open_closed" ELSE "close"
    /\ closes_since_open' = IF op = "open" THEN 0 ELSE Min(closes_since_open + 1, 2)
    /\ hb' = IF hb = "timedout" THEN "closed" ELSE hb
    /\ hb_disc' = IF hb = "timedout" /\ is_connected THEN hb_disc + 1 ELSE hb_disc
    /\ hb_err' = hb_err

\* lines 108-112: stop flag, stop the ping timer, wait for the reader if alive
ClosePortHead(op) ==
    /\ running' = FALSE
    /\ ping_timer' = FALSE
    /\ IF ReaderAlive(reader_thread)
         THEN /\ mpc' = "join"
              /\ mop' = op
              /\ conn_at_call' = is_connected
              /\ closes_since_open' = IF op = "open" THEN 0 ELSE closes_since_open
              /\ events' = <<>>
              /\ act' = "close_wait"
              /\ UNCHANGED <<reader_thread, serial, rx, is_connected, hb, hb_disc, hb_err>>
         ELSE /\ conn_at_call' = is_connected
              /\ ClosePortTail(op)
    /\ send_calls' = <<>>
    /\ written' = send_calls'
    /\ write_error' = FALSE
    /\ UNCHANGED connected_pending
    /\ UNCHANGED lock
    /\ UNCHANGED <<last_pong_time, ping_due, now, rpc, rser, rline, pong_since_open>>

\* close_port called by the owner (toggle button, window close)
CallClosePort ==
    /\ mpc = "idle"
    /\ ClosePortHead("close")
    /\ UNCHANGED pending_close
    /\ UNCHANGED engineVars
    /\ UNCHANGED <<assemblyVars, spectrumVars,
                   wireVars, canvasVars, parserVars>>

\* the close_port queued by QTimer.singleShot(0, ...) runs on a later turn
ScheduledClosePort ==
    /\ mpc = "idle"
    /\ pending_close
    /\ pending_close' = FALSE
    /\ ClosePortHead("close")
    /\ UNCHANGED engineVars
    /\ UNCHANGED <<assemblyVars, spectrumVars,
                   wireVars, canvasVars, parserVars>>

\* the join returns because the reader thread has ended
JoinReturns ==
    /\ mpc = "join"
    /\ ~ReaderAlive(reader_thread)
    /\ ClosePortTail(mop)
    /\ send_calls' = <<>>
    /\ written' = send_calls'
    /\ write_error' = FALSE
    /\ UNCHANGED connected_pending
    /\ UNCHANGED lock
    /\ UNCHANGED <<running, ping_timer, last_pong_time, ping_due, now, pending_close,
                   rpc, rser, rline, pong_since_open, conn_at_call>>
    /\ UNCHANGED engineVars
    /\ UNCHANGED <<assemblyVars, spectrumVars,
                   wireVars, canvasVars, parserVars>>

\* the join gives up after 2 s with the reader thread still alive
JoinTimesOut ==
    /\ mpc = "join"
    /\ ReaderAlive(reader_thread)
    /\ now' = Min(now + JOIN_TIMEOUT_S, MaxTime)
    /\ ClosePortTail(mop)
    /\ send_calls' = <<>>
    /\ written' = send_calls'
    /\ write_error' = FALSE
    /\ UNCHANGED connected_pending
    /\ UNCHANGED lock
    /\ UNCHANGED <<running, ping_timer, last_pong_time, ping_due, pending_close,
                   rpc, rser, rline, pong_since_open, conn_at_call>>
    /\ UNCHANGED engineVars
    /\ UNCHANGED <<assemblyVars, spectrumVars,
                   wireVars, canvasVars, parserVars>>

(***************************************************************************)
(* SerialConnection.open_port                                              *)
(***************************************************************************)
\* line 75: open_port starts with close_port
CallOpenPort ==
    /\ mpc = "idle"
    /\ \E t \in Threads : rpc[t] = "none"
    /\ ClosePortHead("open")
    /\ UNCHANGED pending_close
    /\ UNCHANGED engineVars
    /\ UNCHANGED <<assemblyVars, spectrumVars,
                   wireVars, canvasVars, parserVars>>

NextId == CHOOSE t \in Threads : rpc[t] = "none" /\ \A u \in Threads : rpc[u] = "none" => t <= u

\* lines 80-90: serial.Serial(...) raises
OpenPortFails ==
    /\ mpc = "acquire"
    /\ mpc' = "idle"
    /\ mop' = "none"
    /\ events' = <<"error">>
    /\ act' = "open_fail"
    /\ send_calls' = <<>>
    /\ written' = send_calls'
    /\ write_error' = FALSE
    /\ UNCHANGED connected_pending
    /\ UNCHANGED lock
    /\ hb_err' = IF hb = "timedout" THEN hb_err + 1 ELSE hb_err
    /\ UNCHANGED <<serial, running, reader_thread, is_connected, last_pong_time,
                   ping_timer, ping_due, now, pending_close, rpc, rser, rline, rx,
                   pong_since_open, conn_at_call, closes_since_open, hb, hb_disc>>
    /\ UNCHANGED engineVars
    /\ UNCHANGED <<assemblyVars, spectrumVars,
                   wireVars, canvasVars, parserVars>>

\* lines 80-104: the handle is acquired, reader and ping timer are started,
\* one PING is written
OpenPortSucceeds ==
    /\ mpc = "acquire"
    /\ lock = 0
    /\ \E t \in Threads : rpc[t] = "none"
    /\ serial' = NextId
    /\ running' = TRUE
    /\ last_pong_time' = now
    /\ reader_thread' = NextId
    /\ rpc' = [rpc EXCEPT ![NextId] = "loop"]
    /\ ping_timer' = TRUE
    /\ ping_due' = now + PING_INTERVAL_S
    /\ send_calls' = << <<"PING">> >>
    /\ written' = send_calls'
    /\ write_error' \in BOOLEAN
    /\ UNCHANGED connected_pending
    /\ UNCHANGED lock
    /\ mpc' = "idle"
    /\ mop' = "none"
    /\ events' = <<>>
    /\ act' = "open_ok"
    /\ pong_since_open' = FALSE
    /\ hb' = "none"
    /\ hb_disc' = 0
    /\ hb_err' = 0
    /\ UNCHANGED <<is_connected, now, pending_close, rser, rline, rx,
                   conn_at_call, closes_since_open>>
    /\ UNCHANGED engineVars
    /\ UNCHANGED <<assemblyVars, spectrumVars,
                   wireVars, canvasVars, parserVars>>

(***************************************************************************)
(* SerialConnection._send_ping: the ping timer fires                        *)
(***************************************************************************)
\* a timeout test that allows one second more than a whole heartbeat interval
PongTimedOutLate == now - last_pong_time > PONG_TIMEOUT_S + PING_INTERVAL_S + 1

\* line 168
PongTimedOut == now - last_pong_time > PONG_TIMEOUT_S

SendPing ==
    /\ mpc = "idle"
    /\ ping_timer
    /\ now >= ping_due
    /\ ping_due' = now + PING_INTERVAL_S
    /\ IF ~running
         THEN /\ send_calls' = <<>>
              /\ written' = send_calls'
              /\ write_error' = FALSE
              /\ UNCHANGED connected_pending
              /\ UNCHANGED lock
              /\ events' = <<>>
              /\ act' = "ping"
              /\ UNCHANGED <<is_connected, pending_close, hb, hb_disc, hb_err>>
         ELSE /\ lock = 0
              /\ send_calls' = << <<"PING">> >>
              /\ written' = Write(send_calls')
              /\ write_error' \in (IF serial # 0 THEN BOOLEAN ELSE {FALSE})
              /\ UNCHANGED connected_pending
              /\ UNCHANGED lock
              /\ IF PongTimedOut
                   THEN /\ is_connected' = FALSE
                        /\ events' = <<"error">>
                        /\ pending_close' = TRUE
                        /\ act' = "ping_timeout"
                        /\ hb' = IF is_connected THEN "timedout" ELSE hb
                        /\ hb_disc' = IF is_connected THEN 0 ELSE hb_disc
                        /\ hb_err' = IF is_connected THEN 1
                                     ELSE IF hb = "timedout" THEN hb_err + 1 ELSE hb_err
                   ELSE /\ events' = <<>>
                        /\ act' = "ping"
                        /\ UNCHANGED <<is_connected, pending_close, hb, hb_disc, hb_err>>
    /\ UNCHANGED <<serial, running, reader_thread, last_pong_time, ping_timer, now,
                   mpc, mop, rpc, rser, rline, rx,
                   pong_since_open, conn_at_call, closes_since_open>>
    /\ UNCHANGED engineVars
    /\ UNCHANGED <<assemblyVars, spectrumVars,
                   wireVars, canvasVars, parserVars>>

(***************************************************************************)
(* SerialConnection._reader_loop, one thread per successful open_port      *)
(***************************************************************************)
\* a reader that is still holding the lock when it leaves the locked block
ReaderKeepsLock(t) == t

\* line 192: the with block releases the lock on the way out
LockAfterGrab(t) == 0

\* lines 187 and 192: the loop test, then the reader takes the lock
ReaderLoop(t) ==
    /\ rpc[t] = "loop"
    /\ IF running
         THEN /\ lock = 0
              /\ lock' = t
              /\ rpc' = [rpc EXCEPT ![t] = "locked"]
         ELSE /\ rpc' = [rpc EXCEPT ![t] = "dead"]
              /\ UNCHANGED lock
    /\ events' = <<>>
    /\ send_calls' = <<>>
    /\ written' = send_calls'
    /\ write_error' = FALSE
    /\ UNCHANGED connected_pending
    /\ act' = "reader"
    /\ UNCHANGED <<serial, running, reader_thread, is_connected, last_pong_time,
                   ping_timer, ping_due, now, mpc, mop, pending_close, rser, rline, rx,
                   pong_since_open, conn_at_call, closes_since_open, hb, hb_disc, hb_err>>
    /\ UNCHANGED engineVars
    /\ UNCHANGED <<assemblyVars, spectrumVars,
                   wireVars, canvasVars, parserVars>>

\* lines 192-195: under the lock the reader leaves the loop if there is no open
\* handle, else keeps a reference to it; the lock is released before the read
ReaderGrab(t) ==
    /\ rpc[t] = "locked"
    /\ lock = t
    /\ IF serial # 0
         THEN /\ rpc' = [rpc EXCEPT ![t] = "read"]
              /\ rser' = [rser EXCEPT ![t] = serial]
         ELSE /\ rpc' = [rpc EXCEPT ![t] = "dead"]
              /\ rser' = [rser EXCEPT ![t] = 0]
    /\ lock' = LockAfterGrab(t)
    /\ events' = <<>>
    /\ send_calls' = <<>>
    /\ written' = send_calls'
    /\ write_error' = FALSE
    /\ UNCHANGED connected_pending
    /\ act' = "reader"
    /\ UNCHANGED <<serial, running, reader_thread, is_connected, last_pong_time,
                   ping_timer, ping_due, now, mpc, mop, pending_close, rline, rx,
                   pong_since_open, conn_at_call, closes_since_open, hb, hb_disc, hb_err>>
    /\ UNCHANGED engineVars
    /\ UNCHANGED <<assemblyVars, spectrumVars,
                   wireVars, canvasVars, parserVars>>

\* lines 197-200 and 214-215: the read returns nothing (its 0.1 s timeout), or
\* fails with an exception that is not an I/O error
ReaderReadNothing(t) ==
    /\ rpc[t] = "read"
    /\ rpc' = [rpc EXCEPT ![t] = "loop"]
    /\ rser' = [rser EXCEPT ![t] = 0]
    /\ events' = <<>>
    /\ send_calls' = <<>>
    /\ written' = send_calls'
    /\ write_error' = FALSE
    /\ UNCHANGED connected_pending
    /\ UNCHANGED lock
    /\ act' = "reader"
    /\ UNCHANGED <<serial, running, reader_thread, is_connected, last_pong_time,
                   ping_timer, ping_due, now, mpc, mop, pending_close, rline, rx,
                   pong_since_open, conn_at_call, closes_since_open, hb, hb_disc, hb_err>>
    /\ UNCHANGED engineVars
    /\ UNCHANGED <<assemblyVars, spectrumVars,
                   wireVars, canvasVars, parserVars>>

\* lines 197-206: the read returns a complete line
ReaderReadLine(t) ==
    /\ rpc[t] = "read"
    /\ rser[t] = serial
    /\ rx # ""
    /\ rline' = [rline EXCEPT ![t] = rx]
    /\ rx' = ""
    /\ rpc' = [rpc EXCEPT ![t] = "line"]
    /\ rser' = [rser EXCEPT ![t] = 0]
    /\ events' = <<>>
    /\ send_calls' = <<>>
    /\ written' = send_calls'
    /\ write_error' = FALSE
    /\ UNCHANGED connected_pending
    /\ UNCHANGED lock
    /\ act' = "reader"
    /\ UNCHANGED <<serial, running, reader_thread, is_connected, last_pong_time,
                   ping_timer, ping_due, now, mpc, mop, pending_close,
                   pong_since_open, conn_at_call, closes_since_open, hb, hb_disc, hb_err>>
    /\ UNCHANGED engineVars
    /\ UNCHANGED <<assemblyVars, spectrumVars,
                   wireVars, canvasVars, parserVars>>

\* lines 208-213: the read raises SerialException/OSError
ReaderReadError(t) ==
    /\ rpc[t] = "read"
    /\ rpc' = [rpc EXCEPT ![t] = "dead"]
    /\ rser' = [rser EXCEPT ![t] = 0]
    /\ IF running
         THEN /\ is_connected' = FALSE
              /\ events' = <<"disconnected">>
              /\ hb_disc' = IF hb = "timedout" THEN hb_disc + 1 ELSE hb_disc
         ELSE /\ events' = <<>>
              /\ UNCHANGED <<is_connected, hb_disc>>
    /\ send_calls' = <<>>
    /\ written' = send_calls'
    /\ write_error' = FALSE
    /\ UNCHANGED connected_pending
    /\ UNCHANGED lock
    /\ act' = "reader_error"
    /\ UNCHANGED <<serial, running, reader_thread, last_pong_time,
                   ping_timer, ping_due, now, mpc, mop, pending_close, rline, rx,
                   pong_since_open, conn_at_call, closes_since_open, hb, hb_err>>
    /\ UNCHANGED engineVars
    /\ UNCHANGED <<assemblyVars, spectrumVars,
                   wireVars, canvasVars, parserVars>>

\* lines 217-227: _process_line
ProcessLine(t) ==
    /\ rpc[t] = "line"
    /\ (rline[t] = "PONG" /\ ~is_connected) => connected_pending < MaxPending
    /\ rpc' = [rpc EXCEPT ![t] = "loop"]
    /\ rline' = [rline EXCEPT ![t] = ""]
    /\ IF rline[t] = "PONG"
         THEN /\ last_pong_time' = now
              /\ is_connected' = TRUE
              /\ events' = IF is_connected THEN <<>> ELSE <<"connected">>
              /\ connected_pending' = IF is_connected THEN connected_pending
                                      ELSE connected_pending + 1
              /\ pong_since_open' = TRUE
         ELSE /\ events' = IF rline[t] = "BTN|PRESS" THEN <<"button_press">>
                           ELSE IF rline[t] = "BTN|LONG" THEN <<"button_long">>
                           ELSE <<>>
              /\ UNCHANGED <<last_pong_time, is_connected, pong_since_open,
                             connected_pending>>
    /\ send_calls' = <<>>
    /\ written' = send_calls'
    /\ write_error' = FALSE
    /\ act' = "process_line"
    /\ UNCHANGED <<serial, running, reader_thread, ping_timer, ping_due, now,
                   mpc, mop, pending_close, rser, rx, lock,
                   conn_at_call, closes_since_open, hb, hb_disc, hb_err>>
    /\ UNCHANGED engineVars
    /\ UNCHANGED <<assemblyVars, spectrumVars,
                   wireVars, canvasVars, parserVars>>

(***************************************************************************)
(* Environment: the device and the clock                                   *)
(***************************************************************************)
\* the device puts a line into the input buffer of the open handle
DeviceSends(l) ==
    /\ serial # 0
    /\ rx = ""
    /\ rx' = l
    /\ events' = <<>>
    /\ send_calls' = <<>>
    /\ written' = send_calls'
    /\ write_error' = FALSE
    /\ UNCHANGED connected_pending
    /\ UNCHANGED lock
    /\ act' = "device"
    /\ UNCHANGED <<serial, running, reader_thread, is_connected, last_pong_time,
                   ping_timer, ping_due, now, mpc, mop, pending_close, rpc, rser, rline,
                   pong_since_open, conn_at_call, closes_since_open, hb, hb_disc, hb_err>>
    /\ UNCHANGED engineVars
    /\ UNCHANGED <<assemblyVars, spectrumVars,
                   wireVars, canvasVars, parserVars>>

\* one second passes; the scheduler is idle and has nothing due
Tick ==
    /\ mpc = "idle"
    /\ ~pending_close
    /\ ~(ping_timer /\ now >= ping_due)
    /\ now < MaxTime
    /\ now' = now + 1
    /\ events' = <<>>
    /\ send_calls' = <<>>
    /\ written' = send_calls'
    /\ write_error' = FALSE
    /\ UNCHANGED connected_pending
    /\ UNCHANGED lock
    /\ act' = "tick"
    /\ UNCHANGED <<serial, running, reader_thread, is_connected, last_pong_time,
                   ping_timer, ping_due, mpc, mop, pending_close, rpc, rser, rline, rx,
                   pong_since_open, conn_at_call, closes_since_open, hb, hb_disc, hb_err>>
    /\ UNCHANGED engineVars
    /\ UNCHANGED <<assemblyVars, spectrumVars,
                   wireVars, canvasVars, parserVars>>

(***************************************************************************)
(* srt/parser.py and the sync engine of ui/main_window.py                  *)
(***************************************************************************)
GAP_THRESHOLD_MS == 300

\* largest |track offset| the hotkeys are followed to
MaxOffset == 100

Line(s, e, t) == [start_ms |-> s, end_ms |-> e, text |-> t]

\* lyric sets of the tracks in the library: a gap of 400 ms, a silence of
\* 200 ms, overlapping lines, the same out of order, one line, no lyrics
LyricSets ==
    { << Line(0, 1000, "a"), Line(1400, 2000, "b") >>,
      << Line(0, 1000, "a"), Line(1200, 2000, "b") >>,
      << Line(0, 1400, "a"), Line(1000, 2000, "b") >>,
      << Line(1000, 2000, "b"), Line(0, 1400, "a") >>,
      << Line(0, 1000, "a") >>,
      << >> }

Positions == {0, 1000, 1100, 1300, 1399, 1400, 2000}
\* hotkeys offset_plus_50, offset_minus_50, offset_plus_200, offset_minus_200
OffsetDeltas == {50, -50, 200, -200}
\* values the spin box of the offset editor is set to
LiveOffsets == {-100, 0}
\* lyric_offset_ms stored with a track
StoredOffsets == {0, -50}
\* global offsets the settings dialog applies
GlobalOffsets == {0, -100}
DisplayModes == {"lyrics", "equalizer"}

\* a scan that returns the last line in list order that contains the position
RECURSIVE LyricFromLast(_, _, _)
LyricFromLast(lyr, adjusted, i) ==
    IF i > Len(lyr) THEN <<-1, "">>
    ELSE LET rest == LyricFromLast(lyr, adjusted, i + 1)
         IN  IF rest[1] # -1 THEN rest
             ELSE IF lyr[i].start_ms <= adjusted /\ adjusted < lyr[i].end_ms
                  THEN <<i - 1, lyr[i].text>>
                  ELSE <<-1, "">>

\* get_lyric_at_position: first line in list order that contains the
\* adjusted position; the index is the 0-based list index
RECURSIVE LyricFrom(_, _, _)
LyricFrom(lyr, adjusted, i) ==
    IF i > Len(lyr) THEN <<-1, "">>
    ELSE IF lyr[i].start_ms <= adjusted /\ adjusted < lyr[i].end_ms
         THEN <<i - 1, lyr[i].text>>
         ELSE LyricFrom(lyr, adjusted, i + 1)

GetLyricAtPosition(lyr, position_ms, offset_ms) ==
    LyricFrom(lyr, position_ms + offset_ms, 1)

\* _gap_until_next_lyric: ms until the first line in list order that starts
\* after the adjusted position, -1 if there is none
RECURSIVE GapFrom(_, _, _)
GapFrom(lyr, adjusted, i) ==
    IF i > Len(lyr) THEN -1
    ELSE IF lyr[i].start_ms > adjusted
         THEN lyr[i].start_ms - adjusted
         ELSE GapFrom(lyr, adjusted, i + 1)

GapUntilNextLyric(lyr, position_ms, total_offset) ==
    GapFrom(lyr, position_ms - total_offset, 1)

\* a gap test with the threshold 100 ms higher
GapTooLongOver400(gap_ms) == gap_ms < 0 \/ gap_ms > GAP_THRESHOLD_MS + 100

\* main_window.py line 579
GapTooLong(gap_ms) == gap_ms < 0 \/ gap_ms > GAP_THRESHOLD_MS

\* SerialConnection.send_* : the command each one writes
SendClear == <<"CLR">>
SendText(text) == <<"TXT", text>>
SendMode(mode) == <<"MODE", IF mode = "equalizer" THEN "EQ" ELSE "LYR">>
SendState(state) ==
    <<"STA", IF state = "playing" THEN "PLAY"
             ELSE IF state = "paused" THEN "PAUSE" ELSE "STOP">>
SendMeta == <<"META">>
SendFontSize == <<"FONT">>
SendEqualizer == <<"EQ">>

\* the preview after a sequence of calls (_OledCanvas.set_mode, set_text, clear)
RECURSIVE SimModeAfter(_, _)
SimModeAfter(calls, m) ==
    IF calls = <<>> THEN m
    ELSE SimModeAfter(Tail(calls),
                      IF Head(calls)[1] = "set_mode"
                        THEN (IF Head(calls)[2] \in {"equalizer", "EQ"}
                                THEN "equalizer" ELSE "lyrics")
                        ELSE m)

RECURSIVE SimTextAfter(_, _)
SimTextAfter(calls, t) ==
    IF calls = <<>> THEN t
    ELSE SimTextAfter(Tail(calls),
                      IF Head(calls)[1] = "set_text" THEN Head(calls)[2]
                      ELSE IF Head(calls)[1] = "clear" THEN ""
                      ELSE t)

\* a call is made on the device only when the link reports connected
IfConnected(cmds) == IF is_connected THEN cmds ELSE <<>>

\* a comparison that treats every tick as a change of line
IndexAlwaysChanged(idx, last) == TRUE

\* the line is re-sent when the resolved index differs from the cached one
IndexChanged(idx, last) == idx # last

(***************************************************************************)
(* MainWindow._sync_lyrics(position_ms), as a function of the engine state *)
(* it reads: the new gap flag, the new cached index, the label text, the   *)
(* device commands and the preview send_calls, in program order.                *)
(***************************************************************************)
\* a test of the gap flag as it was before this tick's mode evaluation
GapBeforeEvaluation(gap, gap2) == gap

\* line 593: self._in_lyric_gap, read after the mode evaluation of lines 575-588
GapForLine(gap, gap2) == gap2

SyncLyrics(position_ms, gap, last) ==
    LET total_offset == track_offset_ms + global_offset_ms
        res == GetLyricAtPosition(lyrics, position_ms, total_offset)
        idx == res[1]
        text == res[2]
        toEq == /\ display_mode = "lyrics"
                /\ text = ""
                /\ ~gap
                /\ GapTooLong(GapUntilNextLyric(lyrics, position_ms, total_offset))
        toLyr == /\ display_mode = "lyrics"
                 /\ text # ""
                 /\ gap
        gap2 == IF toEq THEN TRUE ELSE IF toLyr THEN FALSE ELSE gap
        modeDev == IF toEq THEN <<SendMode("equalizer")>>
                   ELSE IF toLyr THEN <<SendMode("lyrics")>> ELSE <<>>
        modeSim == IF toEq THEN << <<"set_mode", "equalizer">> >>
                   ELSE IF toLyr THEN << <<"set_mode", "lyrics">> >> ELSE <<>>
        changed == IndexChanged(idx, last)
        lineDev == IF changed /\ ~GapForLine(gap, gap2)
                     THEN (IF text # "" THEN <<SendText(text)>> ELSE <<SendClear>>)
                     ELSE <<>>
        lineSim == IF ~changed THEN <<>>
                   ELSE IF text # "" THEN << <<"set_text", text>> >>
                   ELSE IF ~gap2 THEN << <<"clear">> >>
                   ELSE <<>>
    IN  IF lyrics = <<>>
          THEN [gap |-> gap, last |-> last, label |-> ui_lyric,
                dev |-> <<>>, sim |-> <<>>]
          ELSE [gap |-> gap2,
                last |-> IF changed THEN idx ELSE last,
                label |-> text,
                dev |-> IfConnected(modeDev \o lineDev),
                sim |-> modeSim \o lineSim]

\* MainWindow._on_state(state): commands and preview calls
OnStateDev(state) == IfConnected(<<SendState(state)>>)
OnStateSim(state) == << <<"set_state", state>> >>

\* MainWindow._send_equalizer_levels, as called from _on_state("playing")
EqualizerDev(gap) ==
    IF display_mode # "equalizer" /\ ~gap THEN <<>>
    ELSE IfConnected(<<SendEqualizer>>)
EqualizerSim(gap) ==
    IF display_mode # "equalizer" /\ ~gap THEN <<>>
    ELSE << <<"set_equalizer">> >>

(***************************************************************************)
(* Handlers of MainWindow                                                  *)
(***************************************************************************)
\* AudioPlayer._poll_position -> _on_position(ms) -> _sync_lyrics(ms)
OnPosition(p) ==
    /\ player_state = "playing"
    /\ LET r == SyncLyrics(p, in_lyric_gap, last_lyric_idx)
       IN  /\ in_lyric_gap' = r.gap
           /\ last_lyric_idx' = r.last
           /\ ui_lyric' = r.label
           /\ send_calls' = r.dev
           /\ written' = Write(send_calls')
           /\ sim_calls' = r.sim
           /\ sim_mode' = SimModeAfter(r.sim, sim_mode)
           /\ sim_text' = SimTextAfter(r.sim, sim_text)
    /\ tick_pos' = p
    /\ gap_before' = in_lyric_gap
    /\ last_before' = last_lyric_idx
    /\ tick_adj_track' = adj_track
    /\ adj_track' = FALSE
    /\ events' = <<>>
    /\ act' = "tick"
    /\ UNCHANGED <<lyrics, current_track, track_offset_ms, global_offset_ms,
                   display_mode, player_state, has_media>>
    /\ UNCHANGED linkState
    /\ UNCHANGED <<assemblyVars, spectrumVars,
                   wireVars, canvasVars, parserVars>>

\* _load_and_play(track): the track's lyrics, its stored offset, and whether
\* its audio file exists
LoadAndPlay(ls, off, audio_ok) ==
    /\ current_track' = 1
    /\ track_offset_ms' = off
    /\ last_lyric_idx' = -1
    /\ in_lyric_gap' = FALSE
    /\ lyrics' = ls
    /\ IF ~audio_ok
         THEN /\ send_calls' = <<>>
              /\ written' = send_calls'
              /\ sim_calls' = <<>>
              /\ UNCHANGED <<player_state, has_media, sim_mode, sim_text>>
         ELSE LET stopDev == IF player_state # "stopped"
                               THEN OnStateDev("stopped") ELSE <<>>
                  stopSim == IF player_state # "stopped"
                               THEN OnStateSim("stopped") ELSE <<>>
                  sim == stopSim \o << <<"clear">>, <<"set_mode", display_mode>>,
                                       <<"set_meta">> >>
              IN  /\ player_state' = "stopped"
                  /\ has_media' = TRUE
                  /\ send_calls' = stopDev \o
                        IfConnected(<<SendClear, SendMode(display_mode), SendMeta>>)
                  /\ written' = Write(send_calls')
                  /\ sim_calls' = sim
                  /\ sim_mode' = SimModeAfter(sim, sim_mode)
                  /\ sim_text' = SimTextAfter(sim, sim_text)
    /\ tick_pos' = -1
    /\ gap_before' = in_lyric_gap
    /\ last_before' = last_lyric_idx
    /\ adj_track' = FALSE
    /\ tick_adj_track' = FALSE
    /\ events' = <<>>
    /\ act' = "load"
    /\ UNCHANGED <<global_offset_ms, display_mode, ui_lyric>>
    /\ UNCHANGED linkState
    /\ UNCHANGED <<assemblyVars, spectrumVars,
                   wireVars, canvasVars, parserVars>>

\* _stop: AudioPlayer.stop() reports the state change and position 0 before
\* the rest of the handler runs
Stop ==
    LET stopDev == IF player_state # "stopped" THEN OnStateDev("stopped") ELSE <<>>
        stopSim == IF player_state # "stopped" THEN OnStateSim("stopped") ELSE <<>>
        r == SyncLyrics(0, in_lyric_gap, last_lyric_idx)
        dev == IfConnected(<<SendClear, SendState("stopped")>> \o
                           (IF display_mode = "lyrics"
                              THEN <<SendMode("lyrics")>> ELSE <<>>))
        sim == stopSim \o r.sim \o
               << <<"clear">>, <<"set_state", "stopped">>, <<"set_mode", display_mode>> >>
    IN  /\ player_state' = "stopped"
        /\ in_lyric_gap' = FALSE
        /\ current_track' = 0
        /\ last_lyric_idx' = -1
        /\ ui_lyric' = ""
        /\ send_calls' = stopDev \o r.dev \o dev
        /\ written' = Write(send_calls')
        /\ sim_calls' = sim
        /\ sim_mode' = SimModeAfter(sim, sim_mode)
        /\ sim_text' = SimTextAfter(sim, sim_text)
        /\ tick_pos' = -1
        /\ gap_before' = in_lyric_gap
        /\ last_before' = last_lyric_idx
        /\ adj_track' = FALSE
        /\ tick_adj_track' = FALSE
        /\ events' = <<>>
        /\ act' = "stop"
        /\ UNCHANGED <<lyrics, track_offset_ms, global_offset_ms, display_mode,
                       has_media>>
        /\ UNCHANGED linkState
        /\ UNCHANGED <<assemblyVars, spectrumVars,
                       wireVars, canvasVars, parserVars>>

\* the player reports a new playback state: _on_state(state)
OnState(state) ==
    /\ state # player_state
    /\ state # "stopped" => has_media
    /\ player_state' = state
    /\ LET eqDev == IF state = "playing" THEN EqualizerDev(in_lyric_gap) ELSE <<>>
           eqSim == IF state = "playing" THEN EqualizerSim(in_lyric_gap) ELSE <<>>
       IN  /\ send_calls' = OnStateDev(state) \o eqDev
           /\ written' = Write(send_calls')
           /\ sim_calls' = OnStateSim(state) \o eqSim
    /\ tick_pos' = -1
    /\ gap_before' = in_lyric_gap
    /\ last_before' = last_lyric_idx
    /\ tick_adj_track' = FALSE
    /\ events' = <<>>
    /\ act' = "state"
    /\ UNCHANGED <<lyrics, current_track, track_offset_ms, global_offset_ms,
                   display_mode, last_lyric_idx, in_lyric_gap, ui_lyric,
                   sim_mode, sim_text, adj_track, has_media>>
    /\ UNCHANGED linkState
    /\ UNCHANGED <<assemblyVars, spectrumVars,
                   wireVars, canvasVars, parserVars>>

\* a tick that does not look at the player
EqTickEmitsWhenNotPlaying(gap) == display_mode = "equalizer" \/ gap

\* _send_equalizer_levels, lines 612-615: the two early returns
EqTickEmits(gap) == player_state = "playing" /\ (display_mode = "equalizer" \/ gap)

\* the 80 ms equalizer timer fires: _send_equalizer_levels; the timer runs
\* from the construction of the window on (lines 60-63)
EqTimerFires ==
    /\ send_calls' = IF EqTickEmits(in_lyric_gap) THEN EqualizerDev(in_lyric_gap) ELSE <<>>
    /\ written' = Write(send_calls')
    /\ sim_calls' = IF EqTickEmits(in_lyric_gap) THEN EqualizerSim(in_lyric_gap) ELSE <<>>
    /\ tick_pos' = -1
    /\ gap_before' = in_lyric_gap
    /\ last_before' = last_lyric_idx
    /\ tick_adj_track' = FALSE
    /\ events' = <<>>
    /\ act' = "eq_timer"
    /\ UNCHANGED <<lyrics, current_track, track_offset_ms, global_offset_ms,
                   display_mode, last_lyric_idx, in_lyric_gap, player_state,
                   has_media, ui_lyric, sim_mode, sim_text, adj_track>>
    /\ UNCHANGED linkState
    /\ UNCHANGED <<assemblyVars, spectrumVars,
                   wireVars, canvasVars, parserVars>>

\* the offset after _adjust_offset(delta) / _on_live_offset_change(offset_ms)
InvalidatedIdx == -1

OffsetChanged(new_offset) ==
    /\ IF current_track # 0
         THEN /\ track_offset_ms' = new_offset
              /\ last_lyric_idx' = InvalidatedIdx
              /\ adj_track' = TRUE
         ELSE UNCHANGED <<track_offset_ms, last_lyric_idx, adj_track>>
    /\ send_calls' = <<>>
    /\ written' = send_calls'
    /\ sim_calls' = <<>>
    /\ tick_pos' = -1
    /\ gap_before' = in_lyric_gap
    /\ last_before' = last_lyric_idx
    /\ tick_adj_track' = FALSE
    /\ events' = <<>>
    /\ UNCHANGED <<lyrics, current_track, global_offset_ms, display_mode,
                   in_lyric_gap, player_state, has_media, ui_lyric, sim_mode,
                   sim_text>>
    /\ UNCHANGED linkState
    /\ UNCHANGED <<assemblyVars, spectrumVars,
                   wireVars, canvasVars, parserVars>>

\* _adjust_offset(delta): an offset hotkey
AdjustOffset(delta) ==
    /\ track_offset_ms + delta <= MaxOffset
    /\ track_offset_ms + delta >= -MaxOffset
    /\ OffsetChanged(track_offset_ms + delta)
    /\ act' = "adjust_offset"

\* _on_live_offset_change(offset_ms): the offset editor's spin box changed
OnLiveOffsetChange(offset_ms) ==
    /\ OffsetChanged(offset_ms)
    /\ act' = "live_offset"

\* SettingsDialog._apply followed by _on_settings_applied
OnSettingsApplied(mode, goff) ==
    /\ display_mode' = mode
    /\ global_offset_ms' = goff
    /\ LET dev == IfConnected(<<SendFontSize, SendMode(mode)>>)
           sim == << <<"set_font_size">>, <<"set_mode", mode>> >>
       IN  /\ send_calls' = dev \o dev
           /\ written' = Write(send_calls')
           /\ sim_calls' = sim
           /\ sim_mode' = SimModeAfter(sim, sim_mode)
    /\ tick_pos' = -1
    /\ gap_before' = in_lyric_gap
    /\ last_before' = last_lyric_idx
    /\ tick_adj_track' = FALSE
    /\ events' = <<>>
    /\ act' = "settings"
    /\ UNCHANGED <<lyrics, current_track, track_offset_ms, last_lyric_idx,
                   in_lyric_gap, player_state, has_media, ui_lyric, sim_text,
                   adj_track>>
    /\ UNCHANGED linkState
    /\ UNCHANGED <<assemblyVars, spectrumVars,
                   wireVars, canvasVars, parserVars>>

\* _send_full_state_to_esp32 with the player at position p
SendFullStateToEsp32(p) ==
    IF ~is_connected THEN <<>>
    ELSE <<SendState(player_state)>>
         \o (IF current_track # 0 THEN <<SendMeta>> ELSE <<>>)
         \o (IF current_track # 0 /\ player_state # "stopped"
                  /\ GetLyricAtPosition(lyrics, p, track_offset_ms + global_offset_ms)[2] # ""
               THEN <<SendText(GetLyricAtPosition(lyrics, p,
                                   track_offset_ms + global_offset_ms)[2])>>
               ELSE <<>>)

\* the main thread runs a queued _on_serial_connected
OnSerialConnected ==
    /\ mpc = "idle"
    /\ connected_pending > 0
    /\ lock = 0
    /\ connected_pending' = connected_pending - 1
    /\ \E p \in Positions :
          send_calls' = <<SendFontSize, SendMode(display_mode)>> \o SendFullStateToEsp32(p)
    /\ written' = Write(send_calls')
    /\ write_error' = FALSE
    /\ events' = <<>>
    /\ act' = "on_connected"
    /\ UNCHANGED <<serial, running, reader_thread, is_connected, last_pong_time,
                   ping_timer, ping_due, now, mpc, mop, pending_close,
                   rpc, rser, rline, rx, pong_since_open, conn_at_call,
                   closes_since_open, hb, hb_disc, hb_err, lock>>
    /\ UNCHANGED engineVars
    /\ UNCHANGED <<assemblyVars, spectrumVars,
                   wireVars, canvasVars, parserVars>>

(***************************************************************************)
(* SerialConnection._reader_loop: from bytes to lines                       *)
(***************************************************************************)
MaxWire == 4

\* bytes on the wire: three ASCII bytes, the line feed, and the two bytes
\* 0xC2 0xA0 that encode U+00A0 (no-break space) in UTF-8
Bytes == {"P", "SP", "CR", "LF", "C2", "A0"}
Wires == UNION {[1..n -> Bytes] : n \in 0..MaxWire}

\* line 201: raw.decode("utf-8", errors="replace") of one chunk; a lead byte
\* without its continuation byte, and a continuation byte without its lead
\* byte, each become U+FFFD
RECURSIVE Decode(_)
Decode(raw) ==
    IF raw = <<>> THEN <<>>
    ELSE IF Head(raw) = "C2"
      THEN IF Len(raw) >= 2 /\ raw[2] = "A0"
             THEN <<"NBSP">> \o Decode(SubSeq(raw, 3, Len(raw)))
             ELSE <<"FFFD">> \o Decode(Tail(raw))
    ELSE IF Head(raw) = "A0" THEN <<"FFFD">> \o Decode(Tail(raw))
    ELSE <<Head(raw)>> \o Decode(Tail(raw))

\* the characters str.strip() removes
Whitespace == {"SP", "CR", "LF", "NBSP"}

\* line 204: line.strip()
RECURSIVE Strip(_)
Strip(line) ==
    IF line = <<>> THEN <<>>
    ELSE IF Head(line) \in Whitespace THEN Strip(Tail(line))
    ELSE IF line[Len(line)] \in Whitespace THEN Strip(SubSeq(line, 1, Len(line) - 1))
    ELSE line

FirstLineFeed(buf) == CHOOSE k \in 1..Len(buf) : buf[k] = "LF" /\ \A j \in 1..(k - 1) : buf[j] # "LF"

\* lines 202-206: while the buffer holds a line feed, split off the line before
\* it, strip it, and dispatch it unless it is empty
RECURSIVE Drain(_, _)
Drain(buf, out) ==
    IF \A k \in 1..Len(buf) : buf[k] # "LF" THEN [buffer |-> buf, dispatched |-> out]
    ELSE LET k == FirstLineFeed(buf)
             line == Strip(SubSeq(buf, 1, k - 1))
         IN  Drain(SubSeq(buf, k + 1, Len(buf)),
                   IF line = <<>> THEN out ELSE Append(out, line))

\* lines 197-206: one read returns the next n bytes
ReaderReadsChunk(n) ==
    /\ n \in 1..Len(wire)
    /\ LET raw == SubSeq(wire, 1, n)
           after == Drain(buffer \o Decode(raw), dispatched)
       IN  /\ buffer' = after.buffer
           /\ dispatched' = after.dispatched
           /\ consumed' = consumed \o raw
    /\ wire' = SubSeq(wire, n + 1, Len(wire))
    /\ UNCHANGED <<linkVars, obsVars, engineVars, spectrumVars,
                   wireVars, canvasVars, parserVars>>

\* line 186: the reader starts with an empty buffer
InitAssembly ==
    /\ wire = <<>>
    /\ consumed = <<>>
    /\ buffer = <<>>
    /\ dispatched = <<>>

(***************************************************************************)
(* SpectrumAnalyzer (src/app/audio/spectrum.py)                             *)
(***************************************************************************)
NUM_BANDS == 12
SAMPLE_RATE == 44100
FFT_SIZE == 2048

MaxLoads == 3

Files == {"A", "B"}

\* lines 105-109: the number of mono samples at 44100 Hz the file decodes to
\* (A: one second, B: exactly one analysis window)
SamplesOf(f) == IF f = "A" THEN SAMPLE_RATE ELSE FFT_SIZE

\* playback positions in ms around the last whole window of either file
QueryPositions == {0, 23, 24, 976, 977}

Max(a, b) == IF a > b THEN a ELSE b

\* lines 77-78
WindowStart(position_ms, sr) == Max(0, (position_ms * sr) \div 1000 - FFT_SIZE \div 2)

\* a window test that never finds the window past the end
WindowNeverPastEnd(end, len) == FALSE

\* line 81
WindowPastEnd(end, len) == end > len

\* lines 42-44
Available == has_numpy /\ has_pydub

\* None as the value of self._samples
NoSamples == [file |-> "", len |-> -1]

\* lines 55-56: self._samples = None
SamplesAfterLoad == NoSamples

\* lines 68 and 75: return None
Unavailable == [kind |-> "none", bands |-> 0, file |-> "", start |-> 0]

\* line 82: [0] * NUM_BANDS
Zeros == [kind |-> "zeros", bands |-> NUM_BANDS, file |-> "", start |-> 0]

\* lines 84-100: the 12 band levels of the window of s that starts at start;
\* the arithmetic is not modelled, the levels are named by what they are
\* computed from
BandLevels(s, start) ==
    [kind |-> "window", bands |-> NUM_BANDS, file |-> s.file, start |-> start]

\* lines 62-100
GetLevelsOf(s, position_ms) ==
    IF ~has_numpy THEN Unavailable
    ELSE IF s = NoSamples THEN Unavailable
    ELSE LET start == WindowStart(position_ms, SAMPLE_RATE)
             end == start + FFT_SIZE
         IN  IF WindowPastEnd(end, s.len) THEN Zeros ELSE BandLevels(s, start)

\* lines 51-60: load_file; without numpy or pydub it returns at once, else it
\* clears the samples under the lock and starts a decode thread
LoadFile(f) ==
    /\ Len(tasks) < MaxLoads
    /\ latest' = f
    /\ sp_call' = "load_file"
    /\ IF ~Available
         THEN UNCHANGED <<samples, tasks, completed>>
         ELSE /\ samples' = SamplesAfterLoad
              /\ tasks' = Append(tasks, [file |-> f, state |-> "running"])
              /\ completed' = "none"
    /\ UNCHANGED <<has_numpy, has_pydub, levels>>
    /\ UNCHANGED <<linkVars, obsVars, engineVars, assemblyVars,
                   wireVars, canvasVars, parserVars>>

\* lines 104-113: a decode thread finishes and stores its samples under the lock
DecodeSucceeds(k) ==
    /\ k \in 1..Len(tasks)
    /\ tasks[k].state = "running"
    /\ tasks' = [tasks EXCEPT ![k].state = "done"]
    /\ samples' = [file |-> tasks[k].file, len |-> SamplesOf(tasks[k].file)]
    /\ completed' = "ok"
    /\ sp_call' = "decode"
    /\ UNCHANGED <<has_numpy, has_pydub, latest, levels>>
    /\ UNCHANGED <<linkVars, obsVars, engineVars, assemblyVars,
                   wireVars, canvasVars, parserVars>>

\* lines 114-116: a decode thread fails and clears the samples under the lock
DecodeFails(k) ==
    /\ k \in 1..Len(tasks)
    /\ tasks[k].state = "running"
    /\ tasks' = [tasks EXCEPT ![k].state = "failed"]
    /\ samples' = NoSamples
    /\ completed' = "failed"
    /\ sp_call' = "decode"
    /\ UNCHANGED <<has_numpy, has_pydub, latest, levels>>
    /\ UNCHANGED <<linkVars, obsVars, engineVars, assemblyVars,
                   wireVars, canvasVars, parserVars>>

\* lines 62-100: get_levels, called by the equalizer timer of the main window
GetLevels(position_ms) ==
    /\ levels' = GetLevelsOf(samples, position_ms)
    /\ sp_call' = "get_levels"
    /\ UNCHANGED <<has_numpy, has_pydub, samples, tasks, latest, completed>>
    /\ UNCHANGED <<linkVars, obsVars, engineVars, assemblyVars,
                   wireVars, canvasVars, parserVars>>

\* lines 32-40: a new analyzer
InitSpectrum ==
    /\ has_numpy = TRUE
    /\ has_pydub = TRUE
    /\ samples = NoSamples
    /\ tasks = <<>>
    /\ latest = ""
    /\ completed = "none"
    /\ levels = Unavailable
    /\ sp_call = "init"

(***************************************************************************)
(* SerialConnection.send_equalizer and the device's reading of the EQ line  *)
(***************************************************************************)
MaxLevels == 3

\* values a caller may pass: below, inside and above the range of a level
LevelValues == {-1, 0, 7, 10, 12, 13}
LevelLists == UNION {[1..n -> LevelValues] : n \in 0..MaxLevels}

DigitChars == <<"0", "1", "2", "3", "4", "5", "6", "7", "8", "9">>

\* str(n) of an integer: decimal digits, "-" in front of a negative one
RECURSIVE StrNat(_)
StrNat(n) == IF n < 10 THEN <<DigitChars[n + 1]>>
             ELSE StrNat(n \div 10) \o <<DigitChars[(n % 10) + 1]>>
Str(n) == IF n < 0 THEN <<"-">> \o StrNat(0 - n) ELSE StrNat(n)

\* a clamp that forgets the lower end
ClampAtMostTwelve(v) == Min(12, v)

\* line 158: max(0, min(12, int(v)))
ClampLevel(v) == Max(0, Min(12, v))

\* line 159: ",".join(clean_levels)
RECURSIVE JoinComma(_)
JoinComma(strs) ==
    IF strs = <<>> THEN <<>>
    ELSE IF Len(strs) = 1 THEN strs[1]
    ELSE strs[1] \o <<",">> \o JoinComma(Tail(strs))

\* lines 156-160: the characters of the EQ line
EqLine(lv) ==
    <<"E", "Q", "|">> \o JoinComma([i \in 1..Len(lv) |-> Str(ClampLevel(lv[i]))]) \o <<"LF">>

\* the device: the value of a decimal digit, of a run of digits, of a token
DigitValue(c) == CHOOSE d \in 0..9 : DigitChars[d + 1] = c
RECURSIVE ParseNat(_, _)
ParseNat(chars, acc) ==
    IF chars = <<>> THEN acc
    ELSE ParseNat(Tail(chars), acc * 10 + DigitValue(Head(chars)))
ParseInt(chars) ==
    IF chars # <<>> /\ Head(chars) = "-" THEN 0 - ParseNat(Tail(chars), 0)
    ELSE ParseNat(chars, 0)

\* the device: the payload split at the commas; an empty payload has no value
RECURSIVE SplitComma(_, _)
SplitComma(chars, cur) ==
    IF chars = <<>> THEN (IF cur = <<>> THEN <<>> ELSE <<cur>>)
    ELSE IF Head(chars) = "," THEN <<cur>> \o SplitComma(Tail(chars), <<>>)
    ELSE SplitComma(Tail(chars), Append(cur, Head(chars)))

\* the device: the integers of an EQ line (without "EQ|" and the line feed)
DeviceParseEq(line) ==
    LET payload == SubSeq(line, 4, Len(line) - 1)
        toks == SplitComma(payload, <<>>)
    IN  [i \in 1..Len(toks) |-> ParseInt(toks[i])]

\* send_equalizer(levels)
SendEqualizerCall ==
    /\ eq_pc = "input"
    /\ eq_line' = EqLine(eq_levels)
    /\ eq_pc' = "sent"
    /\ UNCHANGED <<eq_levels, eq_parsed>>
    /\ UNCHANGED <<linkVars, obsVars, engineVars, assemblyVars, spectrumVars,
                   canvasVars, parserVars>>

\* the device reads the line
DeviceReadsEq ==
    /\ eq_pc = "sent"
    /\ eq_parsed' = DeviceParseEq(eq_line)
    /\ eq_pc' = "parsed"
    /\ UNCHANGED <<eq_levels, eq_line>>
    /\ UNCHANGED <<linkVars, obsVars, engineVars, assemblyVars, spectrumVars,
                   canvasVars, parserVars>>

(***************************************************************************)
(* _OledCanvas._word_wrap (src/app/ui/oled_simulator.py)                    *)
(***************************************************************************)
MAX_LINES == 32

MaxShortText == 6
MaxLongText == 41

\* texts of letters and spaces, every one up to MaxShortText characters
ShortTexts == UNION {[1..n -> {"a", " "}] : n \in 0..MaxShortText}

\* texts without a space, the letter telling the position
Letters == <<"a", "b", "c", "d", "e", "f", "g">>
LongTexts == {[i \in 1..n |-> Letters[(i % 7) + 1]] : n \in 0..MaxLongText}

\* characters per line: small budgets, and the 20 of a 6 px cell on 128 px
LineBudgets == {1, 2, 3, 20}

\* text[a:b] of Python for 0 <= a: characters a .. b-1, counted from 0
Slice(text, a, b) == SubSeq(text, a + 1, Min(b, Len(text)))

\* lines 420-423: the index of the last space in text[pos : stop], or -1
LastSpace(text, pos, stop) ==
    LET spaces == {i \in pos..(stop - 1) : text[i + 1] = " "}
    IN  IF spaces = {} THEN -1
        ELSE CHOOSE i \in spaces : \A j \in spaces : j <= i

\* a test that also breaks at a space that is the first character of the line
BreakAtSpaceFromPos(last_space, pos) == last_space >= pos

\* line 425
BreakAtSpace(last_space, pos) == last_space > pos

\* a hard break that skips the character after the line
AfterHardBreakSkipping(break_at) == break_at + 1

\* line 430: pos = break_at
AfterHardBreak(break_at) == break_at

\* lines 414-432: the loop of _word_wrap from pos on, with the lines and their
\* start positions so far
RECURSIVE WrapFrom(_, _, _, _, _)
WrapFrom(text, cpl, pos, lines, starts) ==
    IF ~(pos < Len(text) /\ Len(lines) < MAX_LINES)
      THEN [lines |-> lines, starts |-> starts]
    ELSE IF Len(text) - pos <= cpl
      THEN [lines |-> Append(lines, Slice(text, pos, Len(text))),
            starts |-> Append(starts, pos)]
    ELSE LET break_at == pos + cpl
             last_space == LastSpace(text, pos, Min(break_at, Len(text)))
         IN  IF BreakAtSpace(last_space, pos)
               THEN WrapFrom(text, cpl, last_space + 1,
                             Append(lines, Slice(text, pos, last_space)),
                             Append(starts, pos))
               ELSE WrapFrom(text, cpl, AfterHardBreak(break_at),
                             Append(lines, Slice(text, pos, break_at)),
                             Append(starts, pos))

\* lines 408-434
WordWrap(text, cpl) == WrapFrom(text, cpl, 0, <<>>, <<>>)

\* _word_wrap(text, chars_per_line) is called
WordWrapCall ==
    /\ wrap_pc = "input"
    /\ LET r == WordWrap(wrap_text, chars_per_line)
       IN  /\ wrap_lines' = r.lines
           /\ wrap_starts' = r.starts
    /\ wrap_pc' = "done"
    /\ UNCHANGED <<wrap_text, chars_per_line, scrollVars, barVars>>
    /\ UNCHANGED <<linkVars, obsVars, engineVars, assemblyVars, spectrumVars,
                   wireVars, parserVars>>

InitWrap ==
    /\ wrap_text = <<>>
    /\ chars_per_line = 1
    /\ wrap_lines = <<>>
    /\ wrap_starts = <<>>
    /\ wrap_pc = "input"

(***************************************************************************)
(* _OledCanvas: the lyric area, its scroll timer and paintEvent             *)
(* (src/app/ui/oled_simulator.py), with whole font sizes (the built-in      *)
(* monospace font)                                                         *)
(***************************************************************************)
SCREEN_WIDTH == 128
LYRICS_AREA_HEIGHT == 48
LYRIC_SCROLL_STEP == 16
GFX_CHAR_W == 6
GFX_CHAR_H == 8

\* lyric texts: none, short, and long enough to scroll at size 3, 2 and 2 and 3
CanvasLengths == {0, 5, 15, 31, 41}
CanvasTexts ==
    {t \in LongTexts : Len(t) \in CanvasLengths}
       \cup {[i \in 1..20 |-> IF i % 4 = 0 THEN " " ELSE "a"]}

\* sizes given to set_font_size, below and above the range included
FontSizes == {0, 1, 2, 3, 4}
ModeNames == {"lyrics", "equalizer", "EQ"}

\* line 168
ClampSize(size) == Max(1, Min(3, size))

\* line 176
MappedMode(mode) == IF mode \in {"equalizer", "EQ"} THEN "equalizer" ELSE "lyrics"

\* update(): a paint is scheduled if the window is shown
Update == visible

\* set_font_size, lines 169-173: _total_lyric_height is left as it is
HeightAfterFontSize(total) == total

\* _paint_lyrics, lines 289-294: the height of the wrapped text
LyricHeight(text, size) ==
    LET char_w == GFX_CHAR_W * size
        char_h == GFX_CHAR_H * size
        cpl == Max(1, SCREEN_WIDTH \div char_w)
    IN  Len(WordWrap(text, cpl).lines) * char_h

\* _update_lyric_scroll_timer, lines 213-220: whether the timer runs afterwards
TimerNeeded(mode, total, text) ==
    mode = "lyrics" /\ total > LYRICS_AREA_HEIGHT /\ Len(text) > 0

\* clear(), lines 151-156
CanvasClear ==
    /\ current_text' = <<>>
    /\ lyric_scroll_offset' = 0
    /\ total_lyric_height' = 0
    /\ lyric_scroll_timer' = FALSE
    /\ dirty' = Update
    /\ UNCHANGED <<text_scale, text_size, oled_mode, visible>>
    /\ UNCHANGED <<wrapVars, barVars>>
    /\ UNCHANGED <<linkVars, obsVars, engineVars, assemblyVars, spectrumVars,
                   wireVars, parserVars>>

\* set_text(text), lines 158-163
CanvasSetText(text) ==
    /\ IF text # current_text
         THEN /\ current_text' = text
              /\ lyric_scroll_offset' = 0
              /\ total_lyric_height' = 0
              /\ dirty' = Update
         ELSE UNCHANGED <<current_text, lyric_scroll_offset, total_lyric_height, dirty>>
    /\ UNCHANGED <<text_scale, text_size, oled_mode, lyric_scroll_timer, visible>>
    /\ UNCHANGED <<wrapVars, barVars>>
    /\ UNCHANGED <<linkVars, obsVars, engineVars, assemblyVars, spectrumVars,
                   wireVars, parserVars>>

\* set_font_size(size), lines 167-174
CanvasSetFontSize(size) ==
    /\ IF ClampSize(size) # text_scale
         THEN /\ text_scale' = ClampSize(size)
              /\ text_size' = ClampSize(size)
              /\ lyric_scroll_offset' = 0
              /\ total_lyric_height' = HeightAfterFontSize(total_lyric_height)
              /\ dirty' = Update
         ELSE UNCHANGED <<text_scale, text_size, lyric_scroll_offset,
                          total_lyric_height, dirty>>
    /\ UNCHANGED <<current_text, oled_mode, lyric_scroll_timer, visible>>
    /\ UNCHANGED <<wrapVars, barVars>>
    /\ UNCHANGED <<linkVars, obsVars, engineVars, assemblyVars, spectrumVars,
                   wireVars, parserVars>>

\* set_mode(mode), lines 176-181
CanvasSetMode(mode) ==
    /\ IF MappedMode(mode) # oled_mode
         THEN /\ oled_mode' = MappedMode(mode)
              /\ lyric_scroll_offset' = 0
              /\ dirty' = Update
         ELSE UNCHANGED <<oled_mode, lyric_scroll_offset, dirty>>
    /\ UNCHANGED <<current_text, text_scale, text_size, total_lyric_height,
                   lyric_scroll_timer, visible>>
    /\ UNCHANGED <<wrapVars, barVars>>
    /\ UNCHANGED <<linkVars, obsVars, engineVars, assemblyVars, spectrumVars,
                   wireVars, parserVars>>

\* the scroll timer fires: _on_lyric_scroll, lines 223-231
OnLyricScroll ==
    /\ lyric_scroll_timer
    /\ IF total_lyric_height <= LYRICS_AREA_HEIGHT
         THEN /\ lyric_scroll_timer' = FALSE
              /\ UNCHANGED <<lyric_scroll_offset, dirty>>
         ELSE LET max_scroll == total_lyric_height - LYRICS_AREA_HEIGHT
                  stepped == lyric_scroll_offset + LYRIC_SCROLL_STEP
              IN  /\ lyric_scroll_offset' = IF stepped > max_scroll THEN 0 ELSE stepped
                  /\ dirty' = Update
                  /\ UNCHANGED lyric_scroll_timer
    /\ UNCHANGED <<current_text, text_scale, text_size, oled_mode,
                   total_lyric_height, visible>>
    /\ UNCHANGED <<wrapVars, barVars>>
    /\ UNCHANGED <<linkVars, obsVars, engineVars, assemblyVars, spectrumVars,
                   wireVars, parserVars>>

\* paintEvent, lines 242-275, of a shown window after update(): the lyrics are
\* measured (lines 253-254, 289-294) and the timer started or stopped (line 266)
PaintEvent ==
    /\ visible
    /\ dirty
    /\ total_lyric_height' =
          IF oled_mode # "equalizer" /\ current_text # <<>>
            THEN LyricHeight(current_text, text_size)
            ELSE total_lyric_height
    /\ lyric_scroll_timer' = TimerNeeded(oled_mode, total_lyric_height', current_text)
    /\ dirty' = FALSE
    /\ UNCHANGED <<current_text, text_scale, text_size, oled_mode,
                   lyric_scroll_offset, visible>>
    /\ UNCHANGED <<wrapVars, barVars>>
    /\ UNCHANGED <<linkVars, obsVars, engineVars, assemblyVars, spectrumVars,
                   wireVars, parserVars>>

\* MainWindow._toggle_oled_sim(True), main_window.py lines 238-243 and 247-263:
\* show(), set_font_size and set_mode with the configured values, and set_text
\* with the current line if there is one (text = <<>>: there is none)
ToggleOledSimOn(size, mode, text) ==
    /\ ~visible
    /\ visible' = TRUE
    /\ dirty' = TRUE
    /\ text_scale' = ClampSize(size)
    /\ text_size' = ClampSize(size)
    /\ oled_mode' = MappedMode(mode)
    /\ current_text' = IF text # <<>> THEN text ELSE current_text
    /\ lyric_scroll_offset' =
          IF text_scale' # text_scale \/ oled_mode' # oled_mode
                \/ current_text' # current_text
            THEN 0 ELSE lyric_scroll_offset
    /\ total_lyric_height' =
          IF current_text' # current_text THEN 0
          ELSE IF text_scale' # text_scale THEN HeightAfterFontSize(total_lyric_height)
          ELSE total_lyric_height
    /\ UNCHANGED lyric_scroll_timer
    /\ UNCHANGED <<wrapVars, barVars>>
    /\ UNCHANGED <<linkVars, obsVars, engineVars, assemblyVars, spectrumVars,
                   wireVars, parserVars>>

\* MainWindow._toggle_oled_sim(False), main_window.py lines 244-245: hide()
ToggleOledSimOff ==
    /\ visible
    /\ visible' = FALSE
    /\ dirty' = FALSE
    /\ UNCHANGED <<current_text, text_scale, text_size, oled_mode,
                   lyric_scroll_offset, total_lyric_height, lyric_scroll_timer>>
    /\ UNCHANGED <<wrapVars, barVars>>
    /\ UNCHANGED <<linkVars, obsVars, engineVars, assemblyVars, spectrumVars,
                   wireVars, parserVars>>

\* _OledCanvas.__init__, lines 116-130, in a window that is not shown
\* (main_window.py line 104)
InitScroll ==
    /\ current_text = <<>>
    /\ text_scale = 2
    /\ text_size = 2
    /\ oled_mode = "lyrics"
    /\ lyric_scroll_offset = 0
    /\ total_lyric_height = 0
    /\ lyric_scroll_timer = FALSE
    /\ visible = FALSE
    /\ dirty = FALSE

(***************************************************************************)
(* _OledCanvas.set_equalizer, and the levels MainWindow._send_equalizer_levels *)
(* computes and hands to send_equalizer and set_equalizer                  *)
(***************************************************************************)
EQ_BARS == 12
EQ_MAX_LEVELS == 12

\* lists given to set_equalizer: shorter and longer than the 12 bars, with
\* values below, within and above the range
EqLengths == {0, 1, 11, 12, 13}
EqValues == {-1, 0, 7, 12, 13}
EqLists ==
    {[i \in 1..n |-> IF i % 2 = 1 THEN a ELSE b] :
        n \in EqLengths, a \in EqValues, b \in EqValues}

\* a clamp that lets negative values through
BarLevelAtMostTwelve(v) == Min(EQ_MAX_LEVELS, v)

\* oled_simulator.py line 204
BarLevel(v) == Max(0, Min(EQ_MAX_LEVELS, v))

\* oled_simulator.py lines 203-207: the bars after set_equalizer(levels)
HeightsAfter(heights, lv) ==
    [i \in 1..EQ_BARS |-> IF i <= Min(EQ_BARS, Len(lv)) THEN BarLevel(lv[i])
                          ELSE heights[i]]

\* set_equalizer(levels), lines 201-209
CanvasSetEqualizer(lv) ==
    /\ eq_heights' = HeightsAfter(eq_heights, lv)
    /\ eq_input' = lv
    /\ eq_cmd' = <<>>
    /\ eq_call' = "set_equalizer"
    /\ dirty' = IF eq_heights' # eq_heights THEN Update ELSE dirty
    /\ UNCHANGED <<current_text, text_scale, text_size, oled_mode,
                   lyric_scroll_offset, total_lyric_height, lyric_scroll_timer,
                   visible>>
    /\ UNCHANGED wrapVars
    /\ UNCHANGED <<linkVars, obsVars, engineVars, assemblyVars, spectrumVars,
                   wireVars, parserVars>>

\* the volume in percent, the band magnitudes in tenths of a dB and the two
\* sines in tenths, as the equalizer tick may find them
Volumes == {0, 1, 2, 100}
Decibels == {-1000, -255, 0, 100}
Sines == {-10, 10}

\* spectrum.py line 98: int(max(0, min(12, (db + 48) * 12 / 45)))
BandLevel(db10) == Max(0, Min(12, ((db10 + 480) * 12) \div 450))

\* main_window.py lines 625-630: base = 0.2 + volume * 0.8,
\* value = (wave + 1) * 0.5 + (wobble + 1) * 0.2,
\* level = int(min(12, max(0, value * 12 * base)))
SineLevel(volume, wave10, wobble10) ==
    LET base1000 == 200 + 8 * volume
        value100 == (wave10 + 10) * 5 + (wobble10 + 10) * 2
    IN  Min(12, Max(0, (value100 * 12 * base1000) \div 100000))

\* what get_levels returns: None (<<>>), zeros, or the levels of 12 bands
SpectrumResults ==
    {<<>>} \cup {[i \in 1..NUM_BANDS |-> 0]}
       \cup {[i \in 1..NUM_BANDS |-> BandLevel(IF i % 2 = 1 THEN d1 ELSE d2)] :
                d1 \in Decibels, d2 \in Decibels}

\* the fallback animation, one pair of sines for the odd bands and one for
\* the even bands
SineLevels(volume) ==
    {[i \in 1..12 |-> IF i % 2 = 1 THEN SineLevel(volume, w1, b1)
                      ELSE SineLevel(volume, w2, b2)] :
        w1 \in Sines, b1 \in Sines, w2 \in Sines, b2 \in Sines}

\* main_window.py lines 616-630: the levels of one tick
TickLevels(volume, spectrum) ==
    IF volume <= 1 THEN {[i \in 1..12 |-> 0]}
    ELSE IF spectrum # <<>> THEN {spectrum}
    ELSE SineLevels(volume)

\* _send_equalizer_levels past its two early returns, lines 616-635: the
\* levels go to send_equalizer if the link is connected, and to set_equalizer
SendEqualizerLevels(volume, spectrum) ==
    \E lv \in TickLevels(volume, spectrum) :
       /\ eq_input' = lv
       /\ eq_cmd' = IF is_connected THEN EqLine(lv) ELSE <<>>
       /\ eq_heights' = HeightsAfter(eq_heights, lv)
       /\ eq_call' = "tick"
       /\ dirty' = IF eq_heights' # eq_heights THEN Update ELSE dirty
       /\ UNCHANGED <<current_text, text_scale, text_size, oled_mode,
                      lyric_scroll_offset, total_lyric_height, lyric_scroll_timer,
                      visible>>
       /\ UNCHANGED wrapVars
       /\ UNCHANGED <<linkVars, obsVars, engineVars, assemblyVars, spectrumVars,
                      wireVars, parserVars>>

\* oled_simulator.py line 135
InitBars ==
    /\ eq_heights = [i \in 1..EQ_BARS |-> 0]
    /\ eq_input = <<>>
    /\ eq_cmd = <<>>
    /\ eq_call = "init"

(***************************************************************************)
(* parse_srt and _parse_lrc (src/app/srt/parser.py)                         *)
(***************************************************************************)
MaxBlocks == 3

\* times a file may carry, in ms
Stamps == {0, 1000}

\* what a file is made of: an SRT block (index line, "start --> end", text
\* lines) or an LRC line ("[mm:ss.xx]..." with one or two time tags and text);
\* the text may be empty
SrtBlocks == [kind : {"srt"}, stamps : [1..2 -> Stamps], text : {"", "a"}]
LrcLines == [kind : {"lrc"}, stamps : [1..1 -> Stamps] \cup [1..2 -> Stamps],
             text : {"", "a"}]
Documents == UNION {[1..n -> SrtBlocks \cup LrcLines] : n \in 0..MaxBlocks}

\* lines 56-82: the blocks that parse as SRT and have text, in file order
RECURSIVE SrtLyrics(_, _)
SrtLyrics(doc, k) ==
    IF k > Len(doc) THEN <<>>
    ELSE (IF doc[k].kind = "srt" /\ doc[k].text # ""
            THEN << [index |-> k, start_ms |-> doc[k].stamps[1],
                     end_ms |-> doc[k].stamps[2], text |-> doc[k].text] >>
            ELSE <<>>)
         \o SrtLyrics(doc, k + 1)

\* lines 95-111: one entry per time tag of every LRC line, in file order
RECURSIVE LrcEntries(_, _)
LrcEntries(doc, k) ==
    IF k > Len(doc) THEN <<>>
    ELSE (IF doc[k].kind = "lrc"
            THEN [i \in 1..Len(doc[k].stamps) |->
                    [start_ms |-> doc[k].stamps[i], text |-> doc[k].text]]
            ELSE <<>>)
         \o LrcEntries(doc, k + 1)

\* line 116: entries.sort(key=start), a stable sort
RECURSIVE InsertByStart(_, _)
InsertByStart(sorted, e) ==
    IF sorted = <<>> THEN <<e>>
    ELSE IF sorted[Len(sorted)].start_ms <= e.start_ms THEN Append(sorted, e)
    ELSE Append(InsertByStart(SubSeq(sorted, 1, Len(sorted) - 1), e), sorted[Len(sorted)])
RECURSIVE SortByStart(_)
SortByStart(entries) ==
    IF entries = <<>> THEN <<>>
    ELSE InsertByStart(SortByStart(SubSeq(entries, 1, Len(entries) - 1)),
                       entries[Len(entries)])

\* lines 117-125: a line ends where the next entry starts, the last one 5 s
\* after its start; entries without text are left out
RECURSIVE LrcLyrics(_, _)
LrcLyrics(entries, idx) ==
    IF idx > Len(entries) THEN <<>>
    ELSE (IF entries[idx].text # ""
            THEN << [index |-> idx, start_ms |-> entries[idx].start_ms,
                     end_ms |-> IF idx < Len(entries) THEN entries[idx + 1].start_ms
                                ELSE entries[idx].start_ms + 5000,
                     text |-> entries[idx].text] >>
            ELSE <<>>)
         \o LrcLyrics(entries, idx + 1)

\* lines 90-125
ParseLrc(doc) == LrcLyrics(SortByStart(LrcEntries(doc, 1)), 1)

\* lines 43-87
ParseSrt(doc) ==
    IF SrtLyrics(doc, 1) # <<>> THEN SrtLyrics(doc, 1) ELSE ParseLrc(doc)

\* parse_srt(text) is called
ParseSrtCall ==
    /\ parse_pc = "input"
    /\ parsed' = ParseSrt(srt_doc)
    /\ parse_pc' = "done"
    /\ UNCHANGED srt_doc
    /\ UNCHANGED <<linkVars, obsVars, engineVars, assemblyVars, spectrumVars,
                   wireVars, canvasVars>>

InitWire ==
    /\ eq_levels = <<>>
    /\ eq_line = <<>>
    /\ eq_parsed = <<>>
    /\ eq_pc = "input"

InitCanvas == InitWrap /\ InitScroll /\ InitBars
InitParser ==
    /\ srt_doc = <<>>
    /\ parsed = <<>>
    /\ parse_pc = "input"

(***************************************************************************)
(* Initial states                                                          *)
(***************************************************************************)
\* MainWindow.__init__ with the configuration file as loaded
InitEngine ==
    /\ lyrics = <<>>
    /\ current_track = 0
    /\ track_offset_ms = 0
    /\ global_offset_ms \in GlobalOffsets
    /\ display_mode \in DisplayModes
    /\ last_lyric_idx = -1
    /\ in_lyric_gap = FALSE
    /\ player_state = "stopped"
    /\ has_media = FALSE
    /\ ui_lyric = ""
    /\ sim_mode = display_mode
    /\ sim_text = ""
    /\ sim_calls = <<>>
    /\ tick_pos = -1
    /\ gap_before = FALSE
    /\ last_before = -1
    /\ adj_track = FALSE
    /\ tick_adj_track = FALSE

\* the transport after open_port and a first PONG, at time 0
InitLinkConnected ==
    /\ serial = 1
    /\ running = TRUE
    /\ reader_thread = 1
    /\ is_connected = TRUE
    /\ last_pong_time = 0
    /\ ping_timer = TRUE
    /\ ping_due = PING_INTERVAL_S
    /\ now = 0
    /\ mpc = "idle"
    /\ mop = "none"
    /\ pending_close = FALSE
    /\ rpc = [t \in Threads |-> IF t = 1 THEN "loop" ELSE "none"]
    /\ rser = [t \in Threads |-> 0]
    /\ rline = [t \in Threads |-> ""]
    /\ rx = ""
    /\ written = <<>>
    /\ connected_pending = 0
    /\ lock = 0
    /\ events = <<>>
    /\ act = "init"
    /\ pong_since_open = TRUE
    /\ conn_at_call = FALSE
    /\ closes_since_open = 0
    /\ hb = "none"
    /\ hb_disc = 0
    /\ hb_err = 0
    /\ write_error = FALSE
    /\ send_calls = <<>>

(***************************************************************************)
(* Specifications                                                          *)
(***************************************************************************)
\* the transport, with the engine at rest
Init == InitLink /\ InitObs /\ InitEngine /\ display_mode = "lyrics"
                 /\ global_offset_ms = 0 /\ InitAssembly /\ InitSpectrum
                 /\ InitWire /\ InitCanvas /\ InitParser

Next ==
    \/ CallOpenPort
    \/ OpenPortFails
    \/ OpenPortSucceeds
    \/ CallClosePort
    \/ ScheduledClosePort
    \/ JoinReturns
    \/ JoinTimesOut
    \/ SendPing
    \/ \E t \in Threads : ReaderLoop(t)
    \/ \E t \in Threads : ReaderGrab(t)
    \/ \E t \in Threads : ReaderReadNothing(t)
    \/ \E t \in Threads : ReaderReadLine(t)
    \/ \E t \in Threads : ReaderReadError(t)
    \/ \E t \in Threads : ProcessLine(t)
    \/ \E l \in InboundLines : DeviceSends(l)
    \/ Tick
    \/ OnSerialConnected

Spec == Init /\ [][Next]_vars

\* the event loop runs a queued call (waiting for the lock where the call
\* takes it, and getting it once a reader has left its locked block), a join
\* returns, open_port returns, and a reader inside its locked block leaves it
FairSpec ==
    /\ Spec
    /\ \A t \in Threads : WF_vars(ReaderGrab(t))
    /\ SF_vars(ScheduledClosePort)
    /\ WF_vars(JoinReturns \/ JoinTimesOut)
    /\ WF_vars(OpenPortFails \/ OpenPortSucceeds)

\* the sync engine, over a link that is either never opened or connected
InitSync ==
    /\ (InitLink /\ InitObs) \/ InitLinkConnected
    /\ InitEngine
    /\ InitAssembly
    /\ InitSpectrum
    /\ InitWire /\ InitCanvas /\ InitParser

NextSync ==
    \/ \E p \in Positions : OnPosition(p)
    \/ \E ls \in LyricSets, off \in StoredOffsets, ok \in BOOLEAN : LoadAndPlay(ls, off, ok)
    \/ Stop
    \/ \E st \in {"playing", "paused", "stopped"} : OnState(st)
    \/ EqTimerFires
    \/ \E d \in OffsetDeltas : AdjustOffset(d)
    \/ \E o \in LiveOffsets : OnLiveOffsetChange(o)
    \/ \E m \in DisplayModes, g \in GlobalOffsets : OnSettingsApplied(m, g)

SyncSpec == InitSync /\ [][NextSync]_vars

\* the transport right after open_port succeeded at time 0: the PING is
\* written, the reader runs, no PONG has arrived
InitLinkOpened ==
    /\ serial = 1
    /\ running = TRUE
    /\ reader_thread = 1
    /\ is_connected = FALSE
    /\ last_pong_time = 0
    /\ ping_timer = TRUE
    /\ ping_due = PING_INTERVAL_S
    /\ now = 0
    /\ mpc = "idle"
    /\ mop = "none"
    /\ pending_close = FALSE
    /\ rpc = [t \in Threads |-> IF t = 1 THEN "loop" ELSE "none"]
    /\ rser = [t \in Threads |-> 0]
    /\ rline = [t \in Threads |-> ""]
    /\ rx = ""
    /\ written = << <<"PING">> >>
    /\ connected_pending = 0
    /\ lock = 0
    /\ events = <<>>
    /\ act = "open_ok"
    /\ pong_since_open = FALSE
    /\ conn_at_call = FALSE
    /\ closes_since_open = 0
    /\ hb = "none"
    /\ hb_disc = 0
    /\ hb_err = 0
    /\ write_error = FALSE
    /\ send_calls = << <<"PING">> >>

\* the device answers the first PING while a track plays
InitConnect ==
    /\ InitLinkOpened
    /\ InitEngine
    /\ InitAssembly
    /\ InitSpectrum
    /\ InitWire /\ InitCanvas /\ InitParser

NextConnect ==
    \/ \E p \in Positions : OnPosition(p)
    \/ \E ls \in LyricSets, off \in StoredOffsets : LoadAndPlay(ls, off, TRUE)
    \/ OnState("playing")
    \/ \E l \in {"PONG"} : DeviceSends(l)
    \/ \E t \in Threads : ReaderLoop(t)
    \/ \E t \in Threads : ReaderGrab(t)
    \/ \E t \in Threads : ReaderReadNothing(t)
    \/ \E t \in Threads : ReaderReadLine(t)
    \/ \E t \in Threads : ProcessLine(t)
    \/ OnSerialConnected

ConnectSpec == InitConnect /\ [][NextConnect]_vars

\* the reader of an open link, given what the device sent, in reads of any size
InitRead ==
    /\ InitLinkConnected
    /\ InitEngine
    /\ wire \in Wires
    /\ consumed = <<>>
    /\ buffer = <<>>
    /\ dispatched = <<>>
    /\ InitSpectrum
    /\ InitWire /\ InitCanvas /\ InitParser

NextRead == \E n \in 1..MaxWire : ReaderReadsChunk(n)

ReadSpec == InitRead /\ [][NextRead]_vars

\* the analyzer: loads, decode threads finishing in any order, level queries;
\* numpy and pydub are importable or not
InitAnalyzer ==
    /\ InitLink /\ InitObs
    /\ InitEngine
    /\ InitAssembly
    /\ InitWire /\ InitCanvas /\ InitParser
    /\ has_numpy \in BOOLEAN
    /\ has_pydub \in BOOLEAN
    /\ samples = NoSamples
    /\ tasks = <<>>
    /\ latest = ""
    /\ completed = "none"
    /\ levels = Unavailable
    /\ sp_call = "init"

NextAnalyzer ==
    \/ \E f \in Files : LoadFile(f)
    \/ \E k \in 1..MaxLoads : DecodeSucceeds(k)
    \/ \E k \in 1..MaxLoads : DecodeFails(k)
    \/ \E p \in QueryPositions : GetLevels(p)

AnalyzerSpec == InitAnalyzer /\ [][NextAnalyzer]_vars

\* one EQ command from send_equalizer to the device
InitEqWire ==
    /\ InitLinkConnected
    /\ InitEngine
    /\ InitAssembly
    /\ InitSpectrum
    /\ InitCanvas /\ InitParser
    /\ eq_levels \in LevelLists
    /\ eq_line = <<>>
    /\ eq_parsed = <<>>
    /\ eq_pc = "input"

NextEqWire == SendEqualizerCall \/ DeviceReadsEq

EqWireSpec == InitEqWire /\ [][NextEqWire]_vars

\* one call of the word wrap
InitWordWrap ==
    /\ InitLink /\ InitObs
    /\ InitEngine
    /\ InitAssembly
    /\ InitSpectrum
    /\ InitWire /\ InitParser
    /\ InitScroll /\ InitBars
    /\ wrap_text \in ShortTexts \cup LongTexts
    /\ chars_per_line \in LineBudgets
    /\ wrap_lines = <<>>
    /\ wrap_starts = <<>>
    /\ wrap_pc = "input"

NextWordWrap == WordWrapCall

WrapSpec == InitWordWrap /\ [][NextWordWrap]_vars

\* one call of parse_srt
InitParse ==
    /\ InitLink /\ InitObs
    /\ InitEngine
    /\ InitAssembly
    /\ InitSpectrum
    /\ InitWire /\ InitCanvas
    /\ srt_doc \in Documents
    /\ parsed = <<>>
    /\ parse_pc = "input"

NextParse == ParseSrtCall

ParseSpec == InitParse /\ [][NextParse]_vars

\* the preview window: calls of the canvas in any order, the scroll timer,
\* paint events, and the window shown and hidden
NextCanvas ==
    \/ CanvasClear
    \/ \E t \in CanvasTexts : CanvasSetText(t)
    \/ \E z \in FontSizes : CanvasSetFontSize(z)
    \/ \E m \in ModeNames : CanvasSetMode(m)
    \/ OnLyricScroll
    \/ PaintEvent
    \/ \E z \in FontSizes, m \in ModeNames, t \in CanvasTexts : ToggleOledSimOn(z, m, t)
    \/ ToggleOledSimOff

CanvasSpec == Init /\ [][NextCanvas]_vars

\* lyric lines of up to 9 lines at size 1, 17 at size 2 and 25 at size 3
ScrollLengths == {0, 8, 15, 22, 29, 31, 41, 51, 64, 127, 148, 169}
ScrollTexts == {[i \in 1..n |-> Letters[(i % 7) + 1]] : n \in ScrollLengths}

\* a shown preview in mode lyrics whose text and font size are set once and
\* never changed: only the scroll timer and paint events run. A running
\* QTimer fires again and again, and a shown window is painted after update()
InitScrollRun ==
    /\ InitLink /\ InitObs
    /\ InitEngine /\ display_mode = "lyrics" /\ global_offset_ms = 0
    /\ InitAssembly
    /\ InitSpectrum
    /\ InitWire /\ InitParser
    /\ InitWrap /\ InitBars
    /\ current_text \in ScrollTexts
    /\ text_scale \in 1..3
    /\ text_size = text_scale
    /\ oled_mode = "lyrics"
    /\ lyric_scroll_offset = 0
    /\ total_lyric_height = 0
    /\ lyric_scroll_timer = FALSE
    /\ visible = TRUE
    /\ dirty = TRUE

NextScrollRun == OnLyricScroll \/ PaintEvent

ScrollSpec ==
    /\ InitScrollRun /\ [][NextScrollRun]_vars
    /\ WF_vars(OnLyricScroll)
    /\ WF_vars(PaintEvent)

\* the bars: set_equalizer with any list and equalizer ticks, over a link
\* that is either never opened or connected
NextBars ==
    \/ \E lv \in EqLists : CanvasSetEqualizer(lv)
    \/ \E v \in Volumes, g \in SpectrumResults : SendEqualizerLevels(v, g)

BarSpec == InitSync /\ [][NextBars]_vars

(***************************************************************************)
(* Properties of the transport                                             *)
(***************************************************************************)
\* C1: a heartbeat timeout on a connected link emits exactly one
\* disconnected event and exactly one error event, counted from the timeout
\* to the end of the close that follows it.
C1_TimeoutEmitsOneDisconnectOneError ==
    (hb = "closed") => (hb_disc = 1 /\ hb_err = 1)

\* C2: is_connected is true only if a PONG line has been processed since the
\* most recent successful open_port.
C2_ConnectedOnlyAfterPong == is_connected => pong_since_open

TornDown ==
    /\ serial = 0
    /\ ~running
    /\ ~ping_timer
    /\ ~is_connected
    /\ reader_thread = 0

\* while the ping cycle runs and no close is queued, the last PONG (or the
\* open) is at most timeout + one heartbeat interval old
TimeoutNoticedInTime ==
    (running /\ ping_timer /\ ~pending_close /\ mpc = "idle")
        => now - last_pong_time <= PONG_TIMEOUT_S + PING_INTERVAL_S

\* the heartbeat callback that detects the timeout queues the close and
\* returns with the link still open
CloseIsDeferred ==
    (act = "ping_timeout") => (pending_close /\ running /\ ping_timer /\ serial # 0)

\* C3: a link that stops answering is torn down: the timeout is detected no
\* later than one heartbeat interval after it elapsed, the close is queued and
\* not run inside the heartbeat callback, and the queued close leads to a
\* state with the handle released, the ping cycle stopped, the reader told to
\* stop and is_connected false.
C3_SilentLinkIsTornDown ==
    /\ []TimeoutNoticedInTime
    /\ []CloseIsDeferred
    /\ (pending_close ~> TornDown)

\* C3 witness: a connected link has timed out and the close that followed has
\* torn it down
C3_TornDownAfterTimeout == hb = "closed" /\ act = "close" /\ TornDown

\* C4: close_port emits disconnected exactly once and only if the link was
\* connected when it was called, and a second close_port with no open_port in
\* between changes no state and emits no event.
C4_CloseIsIdempotent ==
    /\ [][(act' = "close")
            => Count(events', "disconnected") = (IF conn_at_call' THEN 1 ELSE 0)]_vars
    /\ [][(mpc = "idle" /\ act' = "close" /\ closes_since_open >= 1)
            => (UNCHANGED <<serial, running, reader_thread, is_connected,
                            last_pong_time, ping_timer>> /\ events' = <<>>)]_vars

\* the reader threads that have not left their loop
LiveReaders == {t \in Threads : rpc[t] \notin {"none", "dead"}}

\* C25: in every reachable state there is at most one open handle, and at
\* most one live reader thread dispatching lines.
C25_AtMostOneLink ==
    /\ serial \in 0..MaxOpens
    /\ Cardinality(LiveReaders) <= 1

\* C26: a PONG emits connected only if it is the first PONG processed since
\* the open, so that at most one connected event lies between an open and the
\* close that ends it; a later PONG only refreshes last_pong_time.
C26_ConnectedOncePerOpen ==
    [][(act' = "process_line" /\ pong_since_open)
          => (Count(events', "connected") = 0 /\ is_connected' = is_connected)]_vars

\* no connected signal was emitted since the program started: the first link
\* is open and the reader has processed no PONG
NeverConnected == serial = 1 /\ ~pong_since_open

\* C32: connected and disconnected signals alternate, starting with connected:
\* as long as no connected signal was ever emitted, no disconnected signal is
\* emitted.
C32_LinkEventsAlternate ==
    [][NeverConnected => Count(events', "disconnected") = 0]_vars

\* C33: whenever no close_port call is in progress, is_connected implies that
\* the serial handle is open.
C33_ConnectedOnlyWhileOpen ==
    (mop # "close" /\ mpc = "idle" /\ is_connected) => serial # 0

\* C37: no display command is written to the link before the first PONG of
\* the current open has been processed: until then only PING is written.
C37_OnlyPingBeforeFirstPong ==
    \A k \in 1..Len(written) : written[k][1] # "PING" => pong_since_open

(***************************************************************************)
(* Properties of lyric resolution and the sync engine                      *)
(***************************************************************************)
TotalOffset == track_offset_ms + global_offset_ms
Adjusted == tick_pos + TotalOffset

\* the lines whose interval contains the adjusted position
Matches(lyr, adjusted) ==
    {i \in 1..Len(lyr) : lyr[i].start_ms <= adjusted /\ adjusted < lyr[i].end_ms}

SortedByStart(lyr) ==
    \A i, j \in 1..Len(lyr) : i < j => lyr[i].start_ms <= lyr[j].start_ms

NonOverlapping(lyr) ==
    \A i, j \in 1..Len(lyr) : i < j => lyr[i].end_ms <= lyr[j].start_ms

\* a tick on a track with lyrics has just resolved a line
Ticked == act = "tick" /\ lyrics # <<>>

\* what the tick resolved is the first match in list order, or (-1, "")
ResolvedFirstMatch ==
    LET M == Matches(lyrics, Adjusted)
    IN  IF M = {} THEN last_lyric_idx = -1 /\ ui_lyric = ""
        ELSE /\ last_lyric_idx + 1 \in M
             /\ \A j \in M : last_lyric_idx + 1 <= j
             /\ ui_lyric = lyrics[last_lyric_idx + 1].text

ResolvedUnique == Matches(lyrics, Adjusted) \in {{}, {last_lyric_idx + 1}}

\* C5 (as stated): the tick resolves the first match in list order, and for a
\* lyric set sorted by start_ms the resolved line is the only line whose
\* interval contains position + total_offset.
C5_FirstMatchUniqueIfSorted ==
    Ticked => /\ ResolvedFirstMatch
              /\ SortedByStart(lyrics) => ResolvedUnique

\* C5 (amended): the tick resolves the first match in list order, and for a
\* lyric set that is sorted by start_ms and whose lines do not overlap the
\* resolved line is the only line whose interval contains
\* position + total_offset.
C5_FirstMatchUniqueIfDisjoint ==
    Ticked => /\ ResolvedFirstMatch
              /\ (SortedByStart(lyrics) /\ NonOverlapping(lyrics)) => ResolvedUnique

\* C5 witness: two lines contain the adjusted position and the tick resolved
\* the first of them
C5_TwoMatchesFirstWins ==
    /\ Ticked
    /\ Cardinality(Matches(lyrics, Adjusted)) = 2
    /\ last_lyric_idx = 0

GapScenario ==
    /\ Ticked
    /\ display_mode = "lyrics"
    /\ TotalOffset = 0
    /\ lyrics = << Line(0, 1000, "a"), Line(1400, 2000, "b") >>

NoModeCommand ==
    /\ \A k \in 1..Len(written) : written[k][1] # "MODE"
    /\ \A k \in 1..Len(sim_calls) : sim_calls[k][1] # "set_mode"

InSeq(x, s) == \E k \in 1..Len(s) : s[k] = x

SwitchedToEqualizer ==
    /\ in_lyric_gap
    /\ sim_mode = "equalizer"
    /\ InSeq(<<"set_mode", "equalizer">>, sim_calls)
    /\ is_connected => InSeq(<<"MODE", "EQ">>, written)

SwitchedToLyrics ==
    /\ ~in_lyric_gap
    /\ sim_mode = "lyrics"
    /\ InSeq(<<"set_mode", "lyrics">>, sim_calls)
    /\ is_connected => InSeq(<<"MODE", "LYR">>, written)

\* C6: with mode lyrics, total offset 0 and lines (0..1000, a), (1400..2000, b):
\* a tick at 1000 outside a gap switches device and preview to equalizer, a
\* tick at 1399 in the gap leaves the gap flag set and sends no mode command,
\* a tick at 1400 in the gap switches back to lyrics; and in general, in mode
\* lyrics, a tick in the gap that resolves no lyric keeps the gap flag and
\* sends no mode command, and one that resolves a lyric clears it.
C6_GapHysteresis ==
    /\ (GapScenario /\ tick_pos = 1000 /\ ~gap_before) => SwitchedToEqualizer
    /\ (GapScenario /\ tick_pos = 1399 /\ gap_before) => (in_lyric_gap /\ NoModeCommand)
    /\ (GapScenario /\ tick_pos = 1400 /\ gap_before) => SwitchedToLyrics
    /\ (Ticked /\ display_mode = "lyrics" /\ gap_before /\ ui_lyric = "")
          => (in_lyric_gap /\ NoModeCommand)
    /\ (Ticked /\ display_mode = "lyrics" /\ gap_before /\ ui_lyric # "")
          => SwitchedToLyrics

\* C6 witness: the tick at 1400 of the scenario, on a connected link, found
\* the gap flag set and switched back to lyrics
C6_BackToLyricsAt1400 ==
    /\ GapScenario
    /\ tick_pos = 1400
    /\ gap_before
    /\ is_connected
    /\ SwitchedToLyrics

\* the adjusted position lies in a silence of at most 300 ms between the end
\* of one line and the start of the next
InShortSilence(lyr, adjusted) ==
    /\ Matches(lyr, adjusted) = {}
    /\ \E i, j \in 1..Len(lyr) :
          /\ lyr[i].end_ms <= adjusted
          /\ adjusted < lyr[j].start_ms
          /\ lyr[j].start_ms - lyr[i].end_ms <= GAP_THRESHOLD_MS

\* C7: for every total offset, a tick inside a silence of at most 300 ms
\* between two lines does not set the gap flag and sends no MODE|EQ.
C7_ShortSilenceNeverSwitches ==
    (Ticked /\ ~gap_before /\ InShortSilence(lyrics, Adjusted))
        => (~in_lyric_gap /\ ~InSeq(<<"MODE", "EQ">>, written)
                          /\ ~InSeq(<<"set_mode", "equalizer">>, sim_calls))

\* C8: for every total offset, a tick in mode lyrics that resolves no lyric,
\* with the gap flag clear and more than 300 ms from position + total_offset
\* to the next line's start (or no later line), sets the gap flag and
\* switches device and preview to equalizer.
C8_LongGapSwitches ==
    (Ticked /\ display_mode = "lyrics" /\ ~gap_before /\ ui_lyric = ""
            /\ GapTooLong(GapFrom(lyrics, Adjusted, 1)))
        => SwitchedToEqualizer

\* C9: the tick right after a track-offset adjustment re-sends what it
\* resolves: a resolved line goes to the preview and, on a connected link, to
\* the device; when no line resolves in mode lyrics outside a gap the preview
\* shows no line.
C9_TickAfterAdjustResends ==
    (Ticked /\ tick_adj_track)
        => /\ ui_lyric # "" =>
                /\ InSeq(<<"set_text", ui_lyric>>, sim_calls)
                /\ is_connected => InSeq(<<"TXT", ui_lyric>>, written)
           /\ (ui_lyric = "" /\ ~in_lyric_gap /\ display_mode = "lyrics") => sim_text = ""

\* C10: a change of the global offset through the settings dialog resets the
\* cached last shown lyric index to -1.
C10_GlobalOffsetChangeInvalidates ==
    [][(act' = "settings" /\ global_offset_ms' # global_offset_ms)
          => last_lyric_idx' = -1]_vars

LineCommands(cmds) == {k \in 1..Len(cmds) : cmds[k][1] \in {"TXT", "CLR"}}

\* C11: device line commands go out only on an index change: a position tick
\* sends at most one TXT or CLR, and a tick that resolves the index already
\* cached (the one the previous tick resolved, with no offset adjustment,
\* track load or stop in between) sends none.
C11_LineSentOnlyOnIndexChange ==
    [][(act' = "tick")
          => /\ Cardinality(LineCommands(written')) <= 1
             /\ (last_lyric_idx' = last_lyric_idx) => LineCommands(written') = {}]_vars

\* C11 witness: on a connected link in mode lyrics a tick resolved a line
\* outside a gap and sent no TXT, because the index was the cached one
C11_SameIndexNothingSent ==
    /\ Ticked
    /\ is_connected
    /\ display_mode = "lyrics"
    /\ ~in_lyric_gap
    /\ ui_lyric # ""
    /\ last_lyric_idx >= 0
    /\ written = <<>>

\* C12: is_connected becomes false on an I/O error during a read on the
\* running link and on an I/O error during a write on the open link (one
\* that a PONG has connected since its open).
C12_IoErrorDisconnects ==
    /\ (act = "reader_error" /\ running) => ~is_connected
    /\ (write_error /\ pong_since_open) => ~is_connected

\* C13: a send on a link that is not open is silently dropped: nothing is
\* written, no event is emitted, and handle, is_connected, last_pong_time and
\* the running flag are unchanged (here the sends of the connected handler,
\* run after the link was closed).
C13_SendOnClosedLinkDropped ==
    [][(act' = "on_connected" /\ serial = 0)
          => /\ written' = <<>>
             /\ events' = <<>>
             /\ ~write_error'
             /\ UNCHANGED <<serial, is_connected, last_pong_time, running>>]_vars

\* C13 witness: the connected handler has run its sends on a closed link
C13_HandlerRanOnClosedLink == act = "on_connected" /\ serial = 0

C15_ReadOutsideLock ==
    /\ \A t \in Threads : rpc[t] = "read" => lock # t
    /\ lock # 0 => rpc[lock] = "locked"

\* C15 witness: the heartbeat wrote its PING while the reader of the open
\* handle sat in its read
C15_WriteDuringRead ==
    /\ act = "ping"
    /\ written = << <<"PING">> >>
    /\ reader_thread # 0
    /\ rpc[reader_thread] = "read"
    /\ lock = 0

\* what one read of all the bytes returned so far would have dispatched
InOneRead == Drain(Decode(consumed), <<>>).dispatched

\* C16: the lines dispatched do not depend on how the bytes were split into
\* reads (they are what one read of the same bytes dispatches); a line is
\* dispatched only after its line feed was read; no dispatched line is blank
\* or carries a carriage return at either end.
C16_AssemblyIndependentOfSplit ==
    /\ dispatched = InOneRead
    /\ Len(dispatched) <= Cardinality({k \in 1..Len(consumed) : consumed[k] = "LF"})
    /\ \A i \in 1..Len(dispatched) :
          /\ dispatched[i] # <<>>
          /\ dispatched[i][1] # "CR"
          /\ dispatched[i][Len(dispatched[i])] # "CR"

\* C17: an open_port whose serial.Serial(...) raises emits exactly one error
\* and nothing else, starts no reader thread and no ping timer, leaves the
\* link not open and not connected, and leaves no call queued that would
\* open the port again.
C17_FailedOpenLeavesLinkDown ==
    [][(act' = "open_fail")
          => /\ events' = <<"error">>
             /\ rpc' = rpc
             /\ reader_thread' = 0
             /\ ~running'
             /\ ~ping_timer'
             /\ serial' = 0
             /\ ~is_connected'
             /\ written' = <<>>
             /\ mpc' = "idle" /\ mop' = "none"
             /\ pending_close' = pending_close]_vars

\* C18: close_port always terminates: once it waits for the reader it stops
\* waiting (after at most the join timeout, and also if the reader never
\* leaves its read), and when it completes the handle is released, no reader
\* thread is referenced and is_connected is false.
C18_CloseAlwaysCompletes ==
    /\ (mpc = "join") ~> (mpc # "join")
    /\ [][(mpc = "join" /\ mpc' # "join") => now' - now <= JOIN_TIMEOUT_S]_vars
    /\ [][(act' \in {"close", "open_closed"})
            => (serial' = 0 /\ reader_thread' = 0 /\ ~is_connected' /\ ~running')]_vars

\* C18 witness: a close_port on a connected link has completed although a
\* reader is still inside its read
C18_ClosedWhileReadBlocked ==
    /\ act = "close"
    /\ conn_at_call
    /\ \E t \in Threads : rpc[t] = "read"
    /\ serial = 0
    /\ ~is_connected

(***************************************************************************)
(* Properties of the spectrum analyzer                                     *)
(***************************************************************************)
\* C19: after load_file(B) the decode of an earlier load is void: a get_levels
\* call never returns levels computed from a file other than the one loaded
\* last, whatever the order in which the decode threads finish.
C19_LevelsOnlyFromLatestLoad ==
    [][(sp_call' = "get_levels" /\ levels'.kind = "window")
          => levels'.file = latest]_vars

\* the window of the query at position_ms reaches past the end of the samples
PastEnd(position_ms) ==
    WindowStart(position_ms, SAMPLE_RATE) + FFT_SIZE > samples.len

\* C20: get_levels returns "unavailable" (and does not raise) while no decode
\* has finished since the last load, after a decode failure, and without
\* numpy or pydub; with decoded samples it returns 12 zero levels when the
\* analysis window reaches past their end, and levels of the window otherwise.
C20_UnavailableOrZeros ==
    /\ [][(sp_call' = "get_levels" /\ (completed # "ok" \/ ~Available))
            => levels' = Unavailable]_vars
    /\ [][\A p \in QueryPositions :
            (GetLevels(p) /\ samples # NoSamples /\ has_numpy)
               => /\ PastEnd(p) => (levels'.kind = "zeros" /\ levels'.bands = 12)
                  /\ ~PastEnd(p) => levels'.kind = "window"]_vars

\* C20 witness: with decoded samples of file B (one window long), a query
\* whose window ends past the end of the samples returned 12 zeros
C20_ZerosPastEnd ==
    /\ sp_call = "get_levels"
    /\ samples # NoSamples
    /\ samples.file = "B"
    /\ levels = Zeros
    /\ completed = "ok"

\* the device commands of the last step that are lyric commands
LyricCommands == {k \in 1..Len(send_calls) : send_calls[k][1] \in {"TXT", "CLR"}}

\* C27: a position tick whose resolved index changed and that leaves the gap
\* flag set (after its mode evaluation) sends neither TXT nor CLR.
C27_NoLyricCommandInGap ==
    (act = "tick" /\ last_lyric_idx # last_before /\ in_lyric_gap) => LyricCommands = {}

\* C27 witness: on a connected link the tick at 1000 of the gap scenario found
\* line 0 cached and no gap, set the gap flag, changed the cached index to -1
\* and sent the mode command only
C27_GapEnteredOnChange ==
    /\ GapScenario
    /\ tick_pos = 1000
    /\ is_connected
    /\ ~gap_before /\ in_lyric_gap
    /\ last_before = 0 /\ last_lyric_idx = -1
    /\ send_calls = <<SendMode("equalizer")>>

\* the program state of the engine and of the link
ProgramState == <<lyrics, current_track, track_offset_ms, global_offset_ms, display_mode,
                  last_lyric_idx, in_lyric_gap, player_state, has_media, ui_lyric,
                  sim_mode, sim_text, serial, running, reader_thread, is_connected,
                  last_pong_time, ping_timer>>

\* C28: the equalizer tick emits a frame, to the device or to the preview, only
\* when the player is playing and the configured mode is equalizer or the gap
\* flag is set; otherwise it emits nothing and changes no state.
C28_EqTickOnlyWhenPlaying ==
    [][(act' = "eq_timer")
          => IF player_state = "playing" /\ (display_mode = "equalizer" \/ in_lyric_gap)
               THEN UNCHANGED ProgramState
               ELSE send_calls' = <<>> /\ written' = <<>> /\ sim_calls' = <<>>
                    /\ UNCHANGED ProgramState]_vars

\* C28 witness: a tick while playing in mode lyrics with the gap flag set has
\* sent a frame to the connected device and to the preview
C28_FrameInGap ==
    /\ act = "eq_timer"
    /\ player_state = "playing"
    /\ display_mode = "lyrics"
    /\ in_lyric_gap
    /\ is_connected
    /\ send_calls = <<SendEqualizer>>
    /\ sim_calls = << <<"set_equalizer">> >>

\* C34: whenever the configured display mode is lyrics, the gap flag is set
\* if and only if the mode last commanded to the preview is equalizer.
C34_GapFlagMatchesPreviewMode ==
    display_mode = "lyrics" => (in_lyric_gap <=> sim_mode = "equalizer")

\* C35: after the connect handler has run, the content mode last commanded
\* to the device equals the content mode last commanded to the preview.
C35_DeviceModeMatchesPreviewOnConnect ==
    act = "on_connected"
       => \A k \in 1..Len(written) :
             written[k][1] = "MODE" => written[k] = SendMode(sim_mode)

\* C38: on the position tick that leaves a lyric gap (a non-empty lyric
\* resolves while the gap flag is set) with the device connected, MODE|LYR is
\* written, then the TXT of the new line.
C38_ModeThenTextOnLeavingGap ==
    (act = "tick" /\ gap_before /\ ~in_lyric_gap /\ is_connected)
       => written = <<SendMode("lyrics"), SendText(ui_lyric)>>

(***************************************************************************)
(* Properties of the wire format and the renderer                          *)
(***************************************************************************)
\* a level brought into 0..12
InRange(v) == IF v < 0 THEN 0 ELSE IF v > 12 THEN 12 ELSE v

\* C21: the EQ line of send_equalizer, split at the commas and read back as
\* integers, is the list given, each value brought into 0..12, in the same
\* order and of the same length.
C21_EqRoundTrip ==
    eq_pc = "parsed"
       => /\ Len(eq_parsed) = Len(eq_levels)
          /\ \A i \in 1..Len(eq_levels) : eq_parsed[i] = InRange(eq_levels[i])

\* C21 witness: a list with a value below and a value above the range and a
\* two-digit value has made the trip
C21_ClampedListRead ==
    /\ eq_pc = "parsed"
    /\ eq_levels = <<-1, 10, 13>>
    /\ eq_parsed = <<0, 10, 12>>
    /\ eq_line = <<"E", "Q", "|", "0", ",", "1", "0", ",", "1", "2", "LF">>

\* the concatenation of the lines, in order
RECURSIVE Concat(_)
Concat(ls) == IF ls = <<>> THEN <<>> ELSE Head(ls) \o Concat(Tail(ls))

NoSpaces(text) == \A i \in 1..Len(text) : text[i] # " "
AllButLastFull(ls, cpl) == \A i \in 1..(Len(ls) - 1) : Len(ls[i]) = cpl

\* C22 as stated: for every text without spaces and every chars_per_line >= 1
\* the lines put together are the text, and every line but the last has
\* exactly chars_per_line characters.
C22_WrapDropsNothing ==
    (wrap_pc = "done" /\ NoSpaces(wrap_text))
       => /\ Concat(wrap_lines) = wrap_text
          /\ AllButLastFull(wrap_lines, chars_per_line)

\* C22 as amended: the same for a text of at most 32 * chars_per_line
\* characters; of a longer text exactly the first 32 * chars_per_line
\* characters are returned, as 32 full lines.
C22_WrapDropsNothingUpTo32Lines ==
    (wrap_pc = "done" /\ NoSpaces(wrap_text))
       => /\ AllButLastFull(wrap_lines, chars_per_line)
          /\ IF Len(wrap_text) <= 32 * chars_per_line
               THEN Concat(wrap_lines) = wrap_text
               ELSE /\ Len(wrap_lines) = 32
                    /\ Len(wrap_lines[32]) = chars_per_line
                    /\ Concat(wrap_lines) = SubSeq(wrap_text, 1, 32 * chars_per_line)

\* C22 witness: 40 characters at 20 per line have given 2 lines of 20
C22_FortyAtTwenty ==
    /\ wrap_pc = "done"
    /\ Len(wrap_text) = 40
    /\ chars_per_line = 20
    /\ Len(wrap_lines) = 2
    /\ Len(wrap_lines[1]) = 20 /\ Len(wrap_lines[2]) = 20
    /\ wrap_lines[1] \o wrap_lines[2] = wrap_text

\* the spaces a line that starts at p may break at, counted from first on
SpacesInBudget(p, first) ==
    {i \in first..(p + chars_per_line - 1) : i < Len(wrap_text) /\ wrap_text[i + 1] = " "}

\* the lines are those of breaking at the last space of the budget, the
\* budget of a line starting at p reaching from first(p) to p + cpl - 1
BreaksAtLastSpace(firstOffset) ==
    \A j \in 1..Len(wrap_lines) :
       LET p == wrap_starts[j]
           sp == SpacesInBudget(p, p + firstOffset)
       IN  /\ Len(wrap_lines[j]) <= chars_per_line
           /\ IF Len(wrap_text) - p <= chars_per_line
                THEN wrap_lines[j] = Slice(wrap_text, p, Len(wrap_text))
                ELSE IF sp # {}
                  THEN \E b \in sp :
                         /\ \A i \in sp : i <= b
                         /\ wrap_lines[j] = Slice(wrap_text, p, b)
                         /\ j < Len(wrap_lines) => wrap_starts[j + 1] = b + 1
                ELSE /\ wrap_lines[j] = Slice(wrap_text, p, p + chars_per_line)
                     /\ j < Len(wrap_lines) => wrap_starts[j + 1] = p + chars_per_line

\* C30 as stated: a line longer than the budget is broken at the last space
\* within the budget whenever the budget holds a space, and at the character
\* boundary only if it holds none; no line is longer than the budget.
C30_WrapBreaksAtLastSpace == wrap_pc = "done" => BreaksAtLastSpace(0)

\* C30 as amended: a space that is the first character of the line does not
\* count: the line is broken at the last space after its first character,
\* and at the character boundary if there is none.
C30_WrapBreaksAtLastSpaceAfterFirst == wrap_pc = "done" => BreaksAtLastSpace(1)

\* C30 witness: a text whose second line starts with a space has been wrapped
\* with one break at a space and one at the character boundary
C30_BothKindsOfBreak ==
    /\ wrap_pc = "done"
    /\ wrap_text = <<"a", " ", " ", "a", "a", "a">>
    /\ chars_per_line = 2
    /\ wrap_lines = << <<"a">>, <<" ", "a">>, <<"a", "a">> >>
    /\ wrap_starts = <<0, 2, 4>>

\* C23: in every reachable state of the canvas the scroll offset is a multiple
\* of 16 between 0 and max(0, content_height - 48).
C23_ScrollOffsetInRange ==
    /\ 0 <= lyric_scroll_offset
    /\ lyric_scroll_offset <= Max(0, total_lyric_height - LYRICS_AREA_HEIGHT)
    /\ lyric_scroll_offset % LYRIC_SCROLL_STEP = 0

\* the fields of a comma-separated payload
RECURSIVE CommaFields(_, _)
CommaFields(chars, cur) ==
    IF chars = <<>> THEN <<cur>>
    ELSE IF Head(chars) = "," THEN <<cur>> \o CommaFields(Tail(chars), <<>>)
    ELSE CommaFields(Tail(chars), Append(cur, Head(chars)))

\* the decimal numerals of 0..12
LevelNumerals == {StrNat(n) : n \in 0..EQ_MAX_LEVELS}

\* C29: after any sequence of set_equalizer calls and equalizer ticks the
\* canvas holds exactly 12 levels, each in 0..12, and the EQ command of a tick
\* carries exactly 12 values, each in 0..12.
C29_LevelsAlwaysInRange ==
    /\ DOMAIN eq_heights = 1..12
    /\ \A i \in 1..12 : eq_heights[i] \in 0..12
    /\ eq_cmd # <<>> =>
          LET fields == CommaFields(SubSeq(eq_cmd, 4, Len(eq_cmd) - 1), <<>>)
          IN  /\ SubSeq(eq_cmd, 1, 3) = <<"E", "Q", "|">>
              /\ eq_cmd[Len(eq_cmd)] = "LF"
              /\ Len(fields) = 12
              /\ \A i \in 1..12 : fields[i] \in LevelNumerals

\* C29 witness: set_equalizer was given 13 values, in turn below and above
\* the range, and the 12 bars hold 0 and 12 in turn
C29_ThirteenClamped ==
    /\ eq_call = "set_equalizer"
    /\ eq_input = [i \in 1..13 |-> IF i % 2 = 1 THEN -1 ELSE 13]
    /\ eq_heights = [i \in 1..12 |-> IF i % 2 = 1 THEN 0 ELSE 12]

\* C31: in every reachable state of the canvas a scroll offset other than 0
\* implies that the mode is lyrics and the content height is above 48.
C31_ScrollOnlyInLyricsAboveArea ==
    lyric_scroll_offset # 0
       => (oled_mode = "lyrics" /\ total_lyric_height > LYRICS_AREA_HEIGHT)

\* vertical scrolling is engaged
ScrollEngaged ==
    /\ oled_mode = "lyrics"
    /\ total_lyric_height > LYRICS_AREA_HEIGHT
    /\ lyric_scroll_timer

\* the number of wrapped lines, and line i (from 1) drawn completely inside
\* the content area at the current offset (oled_simulator.py lines 301-305)
WrappedLineCount == total_lyric_height \div (GFX_CHAR_H * text_size)
LineInside(i) ==
    LET char_h == GFX_CHAR_H * text_size
        y == (i - 1) * char_h - lyric_scroll_offset
    IN  y >= 0 /\ y + char_h <= LYRICS_AREA_HEIGHT

\* C36: while scrolling is engaged and the text does not change, every wrapped
\* line eventually lies completely inside the 48 px content area.
C36_EveryLineScrollsIntoView ==
    \A i \in 1..MAX_LINES : (ScrollEngaged /\ i <= WrappedLineCount) ~> LineInside(i)

\* C24: the lyric lines of one parsed file are in non-decreasing start_ms
\* order, for SRT blocks in any order and for LRC lines.
C24_ParsedInStartOrder ==
    parse_pc = "done"
       => \A i \in 1..Len(parsed) : \A j \in i..Len(parsed) :
             parsed[i].start_ms <= parsed[j].start_ms

====
